---- MODULE Spec2Model ----
(***************************************************************************)
(* LoveCakes storefront: the stored procedures of schema [functional]      *)
(* (spCartItemAdd, spProductRelated, spProductList, spProductGet) over the *)
(* tables of _structure.sql, and the four handlers of the internal API     *)
(* that validate a request, call a procedure and answer.                   *)
(*                                                                         *)
(* Tables are sets of rows (records).  Money is counted in whole units.    *)
(* Table constraints (CHECK, NOT NULL) are stated as predicates and        *)
(* checked as properties of what the procedures write; the procedures'     *)
(* own guards are what keeps them, so no write is ever refused by them.    *)
(***************************************************************************)
EXTENDS Integers, Sequences, FiniteSets, TLC

VARIABLES
  product,        \* [functional].[product]
  size,           \* [functional].[size]
  confectioner,   \* [functional].[confectioner]
  category,       \* [functional].[category]
  productFlavor,  \* [functional].[productFlavor]
  productSize,    \* [functional].[productSize]
  cart,           \* [functional].[cart]
  cartItem,       \* [functional].[cartItem]
  identCart,      \* last IDENTITY value handed out for cart.idCart
  identCartItem,  \* last IDENTITY value handed out for cartItem.idCartItem
  now,            \* GETUTCDATE(), counted in calls
  call,           \* the last procedure call: its arguments and its outcome
  request,        \* the last HTTP request the API received
  response,       \* the response sent to it
  session         \* the spCartItemAdd call each connection has in flight

vars == <<product, size, confectioner, category, productFlavor, productSize,
          cart, cartItem, identCart, identCartItem, now, call, request, response,
          session>>

catalogVars == <<product, size, confectioner, category, productFlavor, productSize>>

----------------------------------------------------------------------------
(* Bounds *)

MaxCalls == 2

\* the connections of the pool that call spCartItemAdd at the same time
NumSessions == 2

----------------------------------------------------------------------------
(* SQL values *)

\* SQL NULL for numeric columns and variables (all real values are >= 0)
NULL == 0 - 1

\* ISNULL(x, y)
ISNULL(x, y) == IF x = NULL THEN y ELSE x

\* x + y and x * y, NULL if either operand is NULL
Plus(x, y) == IF x = NULL \/ y = NULL THEN NULL ELSE x + y
Times(x, y) == IF x = NULL \/ y = NULL THEN NULL ELSE x * y

\* THROW 51000, <message>, 1
UserError == 51000

NoError == [number |-> 0, message |-> ""]
Thrown(msg) == [number |-> UserError, message |-> msg]

\* The database a procedure runs against
DB == [product |-> product, size |-> size, confectioner |-> confectioner,
       category |-> category,
       productFlavor |-> productFlavor, productSize |-> productSize,
       cart |-> cart, cartItem |-> cartItem,
       identCart |-> identCart, identCartItem |-> identCartItem]

----------------------------------------------------------------------------
(* Table constraints of _structure.sql *)

\* chkCartItem_Quantity: CHECK ([quantity] > 0 AND [quantity] <= 10)
chkCartItem_Quantity(quantity) == quantity > 0 /\ quantity <= 10

----------------------------------------------------------------------------
(* spCartItemAdd *)

\* the quantity limit of the procedure's two checks (lines 124 and 234)
MaxQuantity == 10

\* the validations with the flavor tested before the product
CartItemAddValidationFlavorFirst(db, a) ==
  IF a.idAccount = NULL THEN "accountRequired"
  ELSE IF a.idUser = NULL THEN "userRequired"
  ELSE IF a.idProduct = NULL THEN "productRequired"
  ELSE IF a.idFlavor = NULL THEN "flavorRequired"
  ELSE IF a.idSize = NULL THEN "sizeRequired"
  ELSE IF a.quantity = NULL \/ a.quantity < 1 THEN "quantityRequired"
  ELSE IF a.quantity > MaxQuantity THEN "quantityExceedsMaximum"
  ELSE IF ~ \E prdFlv \in db.productFlavor :
              /\ prdFlv.idProduct = a.idProduct
              /\ prdFlv.idAccount = a.idAccount
              /\ prdFlv.idFlavor = a.idFlavor
       THEN "flavorNotAvailable"
  ELSE IF ~ \E prd \in db.product :
              /\ prd.idProduct = a.idProduct
              /\ prd.idAccount = a.idAccount
              /\ prd.deleted = FALSE
              /\ prd.active = TRUE
              /\ prd.available = TRUE
       THEN "productNotAvailable"
  ELSE IF ~ \E prdSiz \in db.productSize :
              /\ prdSiz.idProduct = a.idProduct
              /\ prdSiz.idAccount = a.idAccount
              /\ prdSiz.idSize = a.idSize
       THEN "sizeNotAvailable"
  ELSE ""

\* lines 70-174: the validations, in order; "" when all pass
CartItemAddValidation(db, a) ==
  IF a.idAccount = NULL THEN "accountRequired"
  ELSE IF a.idUser = NULL THEN "userRequired"
  ELSE IF a.idProduct = NULL THEN "productRequired"
  ELSE IF a.idFlavor = NULL THEN "flavorRequired"
  ELSE IF a.idSize = NULL THEN "sizeRequired"
  ELSE IF a.quantity = NULL \/ a.quantity < 1 THEN "quantityRequired"
  ELSE IF a.quantity > MaxQuantity THEN "quantityExceedsMaximum"
  ELSE IF ~ \E prd \in db.product :
              /\ prd.idProduct = a.idProduct
              /\ prd.idAccount = a.idAccount
              /\ prd.deleted = FALSE
              /\ prd.active = TRUE
              /\ prd.available = TRUE
       THEN "productNotAvailable"
  ELSE IF ~ \E prdFlv \in db.productFlavor :
              /\ prdFlv.idProduct = a.idProduct
              /\ prdFlv.idAccount = a.idAccount
              /\ prdFlv.idFlavor = a.idFlavor
       THEN "flavorNotAvailable"
  ELSE IF ~ \E prdSiz \in db.productSize :
              /\ prdSiz.idProduct = a.idProduct
              /\ prdSiz.idAccount = a.idAccount
              /\ prdSiz.idSize = a.idSize
       THEN "sizeNotAvailable"
  ELSE ""

\* lines 188-191: the carts of the user
UserCarts(db, a) ==
  {crt \in db.cart : crt.idAccount = a.idAccount /\ crt.idUser = a.idUser}

\* the unit price with the promotional price left out
CartUnitPriceBaseOnly(db, a) ==
  LET rows == {<<prd, siz>> \in db.product \X db.size :
                 /\ siz.idSize = a.idSize
                 /\ prd.idProduct = a.idProduct
                 /\ prd.idAccount = a.idAccount}
  IN IF rows = {} THEN NULL
     ELSE LET r == CHOOSE r \in rows : TRUE
          IN Plus(r[1].basePrice, r[2].priceModifier)

\* lines 204-209: ISNULL(promotionalPrice, basePrice) + priceModifier over
\* product JOIN size; NULL when the join is empty
CartUnitPrice(db, a) ==
  LET rows == {<<prd, siz>> \in db.product \X db.size :
                 /\ siz.idSize = a.idSize
                 /\ prd.idProduct = a.idProduct
                 /\ prd.idAccount = a.idAccount}
  IN IF rows = {} THEN NULL
     ELSE LET r == CHOOSE r \in rows : TRUE
          IN Plus(ISNULL(r[1].promotionalPrice, r[1].basePrice), r[2].priceModifier)

\* the lookup with the size left out of the match
MatchingCartItemsAnySize(db, a, idCart) ==
  {crtItm \in db.cartItem :
     /\ crtItm.idCart = idCart
     /\ crtItm.idAccount = a.idAccount
     /\ crtItm.idProduct = a.idProduct
     /\ crtItm.idFlavor = a.idFlavor}

\* lines 216-224: the rows of the cart with the same product, flavor and size
MatchingCartItems(db, a, idCart) ==
  {crtItm \in db.cartItem :
     /\ crtItm.idCart = idCart
     /\ crtItm.idAccount = a.idAccount
     /\ crtItm.idProduct = a.idProduct
     /\ crtItm.idFlavor = a.idFlavor
     /\ crtItm.idSize = a.idSize}

\* the requested quantity replacing the stored one instead of adding to it
NewQuantityOverwrite(existingQuantity, quantity) == quantity

\* line 232: @newQuantity
NewQuantity(existingQuantity, quantity) == existingQuantity + quantity

\* the limit test off by one
ExceedsMaximumOffByOne(newQuantity) == newQuantity > MaxQuantity + 1

\* line 234: IF (@newQuantity > 10)
ExceedsMaximum(newQuantity) == newQuantity > MaxQuantity

\* the UPDATE with the quantity column left out of the SET list
UpdateCartItemPriceOnly(rows, idCartItem, newQuantity, unitPrice, observations) ==
  {IF crtItm.idCartItem = idCartItem
     THEN [crtItm EXCEPT !.totalPrice = Times(unitPrice, newQuantity),
                         !.observations = ISNULL(observations, crtItm.observations)]
     ELSE crtItm : crtItm \in rows}

\* lines 239-244: UPDATE cartItem ... WHERE idCartItem = @idCartItem
UpdateCartItem(rows, idCartItem, newQuantity, unitPrice, observations) ==
  {IF crtItm.idCartItem = idCartItem
     THEN [crtItm EXCEPT !.quantity = newQuantity,
                         !.totalPrice = Times(unitPrice, newQuantity),
                         !.observations = ISNULL(observations, crtItm.observations)]
     ELSE crtItm : crtItm \in rows}

\* lines 251-272: the row INSERTed into cartItem
NewCartItem(a, idCartItem, idCart, unitPrice, totalPrice, t) ==
  [idCartItem |-> idCartItem, idAccount |-> a.idAccount, idCart |-> idCart,
   idProduct |-> a.idProduct, idFlavor |-> a.idFlavor, idSize |-> a.idSize,
   quantity |-> a.quantity, unitPrice |-> unitPrice, totalPrice |-> totalPrice,
   observations |-> a.observations, dateCreated |-> t]

\* lines 280-282: UPDATE cart SET dateModified = GETUTCDATE() WHERE idCart = @idCart
TouchCart(rows, idCart, t) ==
  {IF crt.idCart = idCart THEN [crt EXCEPT !.dateModified = t] ELSE crt : crt \in rows}

\* lines 295-301: the CartItemAdded result row
CartItemAdded(idCartItem, idCart, a, unitPrice, totalPrice) ==
  [idCartItem |-> idCartItem, idCart |-> idCart, quantity |-> a.quantity,
   unitPrice |-> unitPrice, totalPrice |-> totalPrice, success |-> TRUE]

\* lines 303-306: the CATCH block, ROLLBACK TRAN; THROW.  The tables are
\* again those of before BEGIN TRAN (db); IDENTITY values handed out inside
\* the transaction (work) are not given back.
RollbackTran(db, work) ==
  [db EXCEPT !.identCart = work.identCart, !.identCartItem = work.identCartItem]

\* the merge with its quantity check moved behind COMMIT TRAN: the row is
\* updated and committed, then the error is thrown
MergeCartItemCheckAfterCommit(db, work, a, t, existing, unitPrice) ==
  LET newQuantity == NewQuantity(existing.quantity, a.quantity)
      committed == [work EXCEPT
                      !.cartItem = UpdateCartItem(work.cartItem, existing.idCartItem,
                                                  newQuantity, unitPrice, a.observations),
                      !.cart = TouchCart(work.cart, existing.idCart, t)]
  IN IF ExceedsMaximum(newQuantity)
     THEN [db |-> committed, error |-> Thrown("quantityExceedsMaximum"),
           recordset |-> <<>>]
     ELSE [db |-> committed, error |-> NoError,
           recordset |-> <<CartItemAdded(existing.idCartItem, existing.idCart, a,
                                         unitPrice, Times(unitPrice, a.quantity))>>]

\* lines 226-245 and 280-301: the item is in the cart already.  db is the
\* database before BEGIN TRAN, work the database at line 226.
MergeCartItem(db, work, a, t, existing, unitPrice) ==
  LET newQuantity == NewQuantity(existing.quantity, a.quantity) IN
  IF ExceedsMaximum(newQuantity)
  THEN [db |-> RollbackTran(db, work), error |-> Thrown("quantityExceedsMaximum"),
        recordset |-> <<>>]
  ELSE [db |-> [work EXCEPT
                  !.cartItem = UpdateCartItem(work.cartItem, existing.idCartItem,
                                              newQuantity, unitPrice, a.observations),
                  !.cart = TouchCart(work.cart, existing.idCart, t)],
        error |-> NoError,
        recordset |-> <<CartItemAdded(existing.idCartItem, existing.idCart, a,
                                      unitPrice, Times(unitPrice, a.quantity))>>]

\* lines 54-307: the whole procedure, called with arguments a at time t.
\* Yields the database after the call, the error thrown (NoError if none)
\* and the result set.
spCartItemAdd(db, a, t) ==
  LET invalid == CartItemAddValidation(db, a) IN
  IF invalid # "" THEN [db |-> db, error |-> Thrown(invalid), recordset |-> <<>>]
  ELSE
    LET \* lines 188-199: find the user's cart or create it
        carts == UserCarts(db, a)
        hasCart == carts # {}
        idCart == IF hasCart THEN (CHOOSE crt \in carts : TRUE).idCart
                  ELSE db.identCart + 1
        work == IF hasCart THEN db
                ELSE [db EXCEPT
                        !.identCart = idCart,
                        !.cart = db.cart \cup
                           {[idCart |-> idCart, idAccount |-> a.idAccount,
                             idUser |-> a.idUser, dateCreated |-> t,
                             dateModified |-> t]}]
        \* lines 204-211
        unitPrice == CartUnitPrice(db, a)
        totalPrice == Times(unitPrice, a.quantity)
        \* lines 216-224
        matching == MatchingCartItems(work, a, idCart)
        exists == matching # {}
        existing == CHOOSE crtItm \in matching : TRUE
    IN
    IF exists
    THEN MergeCartItem(db, work, a, t, existing, unitPrice)
    ELSE \* lines 246-275 and 280-301
      LET idCartItem == work.identCartItem + 1 IN
      [db |-> [work EXCEPT
                 !.identCartItem = idCartItem,
                 !.cartItem = work.cartItem \cup
                    {NewCartItem(a, idCartItem, idCart, unitPrice, totalPrice, t)},
                 !.cart = TouchCart(work.cart, idCart, t)],
       error |-> NoError,
       recordset |-> <<CartItemAdded(idCartItem, idCart, a, unitPrice, totalPrice)>>]

----------------------------------------------------------------------------
(* Result sets *)

\* the smaller of two numbers
Min(x, y) == IF x <= y THEN x ELSE y

\* ORDER BY: the rows in the order Before (a strict total order on rows);
\* the i-th row is the one with i - 1 rows before it
OrderBy(rows, Before(_, _)) ==
  [i \in 1..Cardinality(rows) |->
     CHOOSE x \in rows : Cardinality({y \in rows : Before(y, x)}) = i - 1]

\* TOP (n): the first n rows
Top(rows, n) == SubSeq(rows, 1, Min(n, Len(rows)))

\* OFFSET offset ROWS FETCH NEXT n ROWS ONLY
OffsetFetch(rows, offset, n) == SubSeq(rows, offset + 1, Min(offset + n, Len(rows)))

\* the rows of a result set, as a set
Rows(recordset) == {recordset[i] : i \in 1..Len(recordset)}

\* ISNULL([promotionalPrice], [basePrice]) AS [currentPrice], with the base
\* price taken always
CurrentPriceBaseOnly(prd) == prd.basePrice

\* ISNULL([promotionalPrice], [basePrice]) AS [currentPrice]
\* (spProductRelated line 118, spProductList line 445, spProductGet line 106)
CurrentPrice(prd) == ISNULL(prd.promotionalPrice, prd.basePrice)

\* CAST(CASE WHEN [promotionalPrice] IS NOT NULL THEN 1 ELSE 0 END AS BIT)
\* (spProductList line 446, spProductGet line 107)
HasPromotion(prd) == IF prd.promotionalPrice # NULL THEN 1 ELSE 0

\* product JOIN confectioner ON cnf.idAccount = prd.idAccount AND
\* cnf.idConfectioner = prd.idConfectioner: the confectioners of a product
ConfectionersOf(db, prd) ==
  {cnf \in db.confectioner :
     cnf.idAccount = prd.idAccount /\ cnf.idConfectioner = prd.idConfectioner}

----------------------------------------------------------------------------
(* spProductRelated *)

\* @limit INT = 4
DefaultLimit == 4

Criteria == {"categoria", "sabor", "confeiteiro", "popularidade"}

\* lines 54-90: the validations, in order; "" when all pass
ProductRelatedValidation(db, a) ==
  IF a.idAccount = NULL THEN "accountRequired"
  ELSE IF a.idProduct = NULL THEN "productRequired"
  ELSE IF a.criteria \notin Criteria THEN "criteriaInvalidValue"
  ELSE IF ~ \E prd \in db.product :
              /\ prd.idProduct = a.idProduct
              /\ prd.idAccount = a.idAccount
              /\ prd.deleted = FALSE
       THEN "productDoesntExist"
  ELSE ""

\* lines 125-137: the product shares a flavor with the reference product
SharesFlavor(db, a, prd) ==
  \E prdFlv1 \in db.productFlavor :
    /\ prdFlv1.idProduct = a.idProduct
    /\ prdFlv1.idAccount = a.idAccount
    /\ \E prdFlv2 \in db.productFlavor :
         /\ prdFlv2.idProduct = prd.idProduct
         /\ prdFlv2.idAccount = prd.idAccount
         /\ prdFlv2.idFlavor = prdFlv1.idFlavor

\* lines 122-139: [matchesCriteria]; ref is the reference product
MatchesCriteria(db, a, ref, prd) ==
  IF a.criteria = "categoria" /\ prd.idCategory = ref.idCategory THEN 1
  ELSE IF a.criteria = "confeiteiro" /\ prd.idConfectioner = ref.idConfectioner THEN 1
  ELSE IF a.criteria = "sabor" /\ SharesFlavor(db, a, prd) THEN 1
  ELSE 0

\* the filter with the test on the reference product left out
RelatedFilterWithReference(a, prd, cnf) ==
  /\ prd.idAccount = a.idAccount
  /\ prd.deleted = FALSE
  /\ prd.active = TRUE
  /\ prd.available = TRUE
  /\ cnf.deleted = FALSE

\* lines 143-148: the WHERE clause of [RelatedProducts]
RelatedFilter(a, prd, cnf) ==
  /\ prd.idAccount = a.idAccount
  /\ prd.idProduct # a.idProduct
  /\ prd.deleted = FALSE
  /\ prd.active = TRUE
  /\ prd.available = TRUE
  /\ cnf.deleted = FALSE

\* lines 111-149: the rows of [RelatedProducts]
RelatedProducts(db, a, ref) ==
  {[idProduct |-> prd.idProduct, name |-> prd.name,
    basePrice |-> prd.basePrice, promotionalPrice |-> prd.promotionalPrice,
    currentPrice |-> CurrentPrice(prd),
    averageRating |-> prd.averageRating, totalReviews |-> prd.totalReviews,
    matchesCriteria |-> MatchesCriteria(db, a, ref, prd),
    popularity |-> prd.totalReviews] :
     prd \in {x \in db.product : \E cnf \in ConfectionersOf(db, x) : RelatedFilter(a, x, cnf)}}

\* the ordering with [matchesCriteria] left out
RelatedOrderWithoutMatch(x, y) ==
  \/ x.popularity > y.popularity
  \/ /\ x.popularity = y.popularity
     /\ \/ x.averageRating > y.averageRating
        \/ /\ x.averageRating = y.averageRating
           /\ x.idProduct < y.idProduct

\* the ordering with the rating compared before the popularity
RelatedOrderRatingFirst(x, y) ==
  \/ x.matchesCriteria > y.matchesCriteria
  \/ /\ x.matchesCriteria = y.matchesCriteria
     /\ \/ x.averageRating > y.averageRating
        \/ /\ x.averageRating = y.averageRating
           /\ \/ x.popularity > y.popularity
              \/ /\ x.popularity = y.popularity
                 /\ x.idProduct < y.idProduct

\* lines 173-177: ORDER BY matchesCriteria DESC, popularity DESC,
\* averageRating DESC, idProduct
RelatedOrder(x, y) ==
  \/ x.matchesCriteria > y.matchesCriteria
  \/ /\ x.matchesCriteria = y.matchesCriteria
     /\ \/ x.popularity > y.popularity
        \/ /\ x.popularity = y.popularity
           /\ \/ x.averageRating > y.averageRating
              \/ /\ x.averageRating = y.averageRating
                 /\ x.idProduct < y.idProduct

\* lines 162-172: the columns of the result set
RelatedColumns(r) ==
  [idProduct |-> r.idProduct, name |-> r.name, basePrice |-> r.basePrice,
   promotionalPrice |-> r.promotionalPrice, currentPrice |-> r.currentPrice,
   averageRating |-> r.averageRating, totalReviews |-> r.totalReviews]

\* lines 41-178: the whole procedure
spProductRelated(db, a) ==
  LET invalid == ProductRelatedValidation(db, a) IN
  IF invalid # "" THEN [error |-> Thrown(invalid), recordset |-> <<>>]
  ELSE
    LET \* lines 98-103
        ref == CHOOSE prd \in db.product :
                 prd.idProduct = a.idProduct /\ prd.idAccount = a.idAccount
        ordered == OrderBy(RelatedProducts(db, a, ref), RelatedOrder)
        top == Top(ordered, a.limit)
    IN [error |-> NoError,
        recordset |-> [i \in 1..Len(top) |-> RelatedColumns(top[i])]]

----------------------------------------------------------------------------
(* spProductGet *)

\* the validations with the test of [active] left out
ProductGetValidationAnyActive(db, a) ==
  IF a.idAccount = NULL THEN "accountRequired"
  ELSE IF a.idProduct = NULL THEN "productRequired"
  ELSE IF ~ \E prd \in db.product :
              /\ prd.idProduct = a.idProduct
              /\ prd.idAccount = a.idAccount
              /\ prd.deleted = FALSE
       THEN "productDoesntExist"
  ELSE ""

\* lines 45-73: the validations, in order; "" when all pass
ProductGetValidation(db, a) ==
  IF a.idAccount = NULL THEN "accountRequired"
  ELSE IF a.idProduct = NULL THEN "productRequired"
  ELSE IF ~ \E prd \in db.product :
              /\ prd.idProduct = a.idProduct
              /\ prd.idAccount = a.idAccount
              /\ prd.deleted = FALSE
              /\ prd.active = TRUE
       THEN "productDoesntExist"
  ELSE ""

\* lines 98-124: the ProductDetails result set
ProductDetails(db, a) ==
  {[idProduct |-> prd.idProduct, name |-> prd.name,
    basePrice |-> prd.basePrice, promotionalPrice |-> prd.promotionalPrice,
    currentPrice |-> CurrentPrice(prd), hasPromotion |-> HasPromotion(prd),
    averageRating |-> prd.averageRating, totalReviews |-> prd.totalReviews,
    available |-> prd.available, idConfectioner |-> prd.idConfectioner] :
     prd \in {x \in db.product :
                /\ x.idProduct = a.idProduct
                /\ x.idAccount = a.idAccount
                /\ x.deleted = FALSE
                /\ \E cnf \in ConfectionersOf(db, x) : cnf.deleted = FALSE}}

\* lines 34-181: the procedure, up to its first result set (the flavors,
\* sizes and reviews that follow it are read by no property here)
spProductGet(db, a) ==
  LET invalid == ProductGetValidation(db, a) IN
  IF invalid # "" THEN [error |-> Thrown(invalid), recordset |-> <<>>]
  ELSE [error |-> NoError,
        recordset |-> OrderBy(ProductDetails(db, a),
                              LAMBDA x, y : x.idProduct < y.idProduct)]

----------------------------------------------------------------------------
(* spProductList *)

PageSizes == {12, 24, 36}

SortBys == {"relevancia", "preco_menor", "preco_maior", "mais_vendidos",
            "melhor_avaliados", "mais_recentes"}

Availabilities == {"disponivel", "indisponivel", "todos"}

\* NULL for a text parameter and for a parameter holding a list of ids
NULLTEXT == <<>>

\* error 208, Invalid object name
InvalidObjectName == 208

\* the validations with a price range of one value refused
ProductListValidationStrictRange(a) ==
  IF a.idAccount = NULL THEN "accountRequired"
  ELSE IF a.page < 1 THEN "pageMinimumValue"
  ELSE IF a.pageSize \notin PageSizes THEN "pageSizeInvalidValue"
  ELSE IF a.sortBy \notin SortBys THEN "sortByInvalidValue"
  ELSE IF a.availability \notin Availabilities THEN "availabilityInvalidValue"
  ELSE IF a.minPrice # NULL /\ a.maxPrice # NULL /\ a.minPrice >= a.maxPrice
       THEN "priceRangeInvalid"
  ELSE ""

\* lines 277-325: the validations, in order; "" when all pass
ProductListValidation(a) ==
  IF a.idAccount = NULL THEN "accountRequired"
  ELSE IF a.page < 1 THEN "pageMinimumValue"
  ELSE IF a.pageSize \notin PageSizes THEN "pageSizeInvalidValue"
  ELSE IF a.sortBy \notin SortBys THEN "sortByInvalidValue"
  ELSE IF a.availability \notin Availabilities THEN "availabilityInvalidValue"
  ELSE IF a.minPrice # NULL /\ a.maxPrice # NULL /\ a.minPrice > a.maxPrice
       THEN "priceRangeInvalid"
  ELSE ""

\* text LIKE '%' + term + '%'
Like(text, term) ==
  \E i \in 0..(Len(text) - Len(term)) : SubSeq(text, i + 1, i + Len(term)) = term

\* id IN (SELECT CAST([value] AS INT) FROM STRING_SPLIT(list, ',')); the
\* list is given by the numbers its values cast to
InList(id, list) == \E i \in 1..Len(list) : list[i] = id

\* product JOIN category ON cat.idAccount = prd.idAccount AND
\* cat.idCategory = prd.idCategory
CategoriesOf(db, prd) ==
  {cat \in db.category :
     cat.idAccount = prd.idAccount /\ cat.idCategory = prd.idCategory}

\* lines 353-421: the WHERE clause of [FilteredProducts]
ListFilter(db, a, prd, cat, cnf) ==
  /\ prd.idAccount = a.idAccount
  /\ prd.deleted = FALSE
  /\ prd.active = TRUE
  /\ cat.deleted = FALSE
  /\ cnf.deleted = FALSE
  /\ \/ a.availability = "disponivel" /\ prd.available = TRUE
     \/ a.availability = "indisponivel" /\ prd.available = FALSE
     \/ a.availability = "todos"
  /\ \/ a.searchTerm = NULLTEXT
     \/ Like(prd.name, a.searchTerm)
     \/ Like(prd.description, a.searchTerm)
     \/ Like(prd.ingredients, a.searchTerm)
  /\ (a.categories = NULLTEXT \/ InList(prd.idCategory, a.categories))
  /\ (a.confectioners = NULLTEXT \/ InList(prd.idConfectioner, a.confectioners))
  /\ (a.minPrice = NULL \/ CurrentPrice(prd) >= a.minPrice)
  /\ (a.maxPrice = NULL \/ CurrentPrice(prd) <= a.maxPrice)
  /\ \/ a.flavors = NULLTEXT
     \/ \E prdFlv \in db.productFlavor :
          /\ prdFlv.idAccount = prd.idAccount
          /\ prdFlv.idProduct = prd.idProduct
          /\ InList(prdFlv.idFlavor, a.flavors)
  /\ \/ a.sizes = NULLTEXT
     \/ \E prdSiz \in db.productSize :
          /\ prdSiz.idAccount = prd.idAccount
          /\ prdSiz.idProduct = prd.idProduct
          /\ InList(prdSiz.idSize, a.sizes)

\* lines 333-422: the rows of [FilteredProducts]
FilteredProducts(db, a) ==
  {prd \in db.product :
     \E cat \in CategoriesOf(db, prd), cnf \in ConfectionersOf(db, prd) :
       ListFilter(db, a, prd, cat, cnf)}

\* lines 454-459: the ORDER BY of the product list; a CASE without a
\* matching WHEN is NULL on every row
ListOrder(a, x, y) ==
  LET priceAsc(r) == IF a.sortBy = "preco_menor" THEN CurrentPrice(r) ELSE NULL
      priceDesc(r) == IF a.sortBy = "preco_maior" THEN CurrentPrice(r) ELSE NULL
      rating(r) == IF a.sortBy = "melhor_avaliados" THEN r.averageRating ELSE NULL
      created(r) == IF a.sortBy = "mais_recentes" THEN r.dateCreated ELSE NULL
  IN \/ priceAsc(x) < priceAsc(y)
     \/ /\ priceAsc(x) = priceAsc(y)
        /\ \/ priceDesc(x) > priceDesc(y)
           \/ /\ priceDesc(x) = priceDesc(y)
              /\ \/ rating(x) > rating(y)
                 \/ /\ rating(x) = rating(y)
                    /\ \/ created(x) > created(y)
                       \/ /\ created(x) = created(y)
                          /\ x.idProduct < y.idProduct

\* lines 439-452: the columns of the ProductList result set
ListColumns(prd) ==
  [idProduct |-> prd.idProduct, name |-> prd.name,
   basePrice |-> prd.basePrice, promotionalPrice |-> prd.promotionalPrice,
   currentPrice |-> CurrentPrice(prd), hasPromotion |-> HasPromotion(prd),
   averageRating |-> prd.averageRating, totalReviews |-> prd.totalReviews,
   available |-> prd.available]

\* lines 256-477: the whole procedure.  The product list is sent; the
\* pagination SELECT that follows reads [FilteredProducts], a name that
\* exists only inside the statement before it, and fails with error 208:
\* the Pagination result set (lines 470-475) has no row.
spProductList(db, a) ==
  LET invalid == ProductListValidation(a) IN
  IF invalid # ""
  THEN [error |-> Thrown(invalid), recordset |-> <<>>, pagination |-> <<>>]
  ELSE
    LET offset == (a.page - 1) * a.pageSize
        ordered == OrderBy(FilteredProducts(db, a), LAMBDA x, y : ListOrder(a, x, y))
        page == OffsetFetch(ordered, offset, a.pageSize)
    IN [error |-> [number |-> InvalidObjectName,
                   message |-> "Invalid object name 'FilteredProducts'."],
        recordset |-> [i \in 1..Len(page) |-> ListColumns(page[i])],
        pagination |-> <<>>]

----------------------------------------------------------------------------
(* The storefront's data for the cart: two accounts.  Account 1 sells     *)
(* product 1 (two flavors, two sizes), product 2 (on promotion) and       *)
(* product 4 (not available); account 2 sells product 3.  Size 3, linked   *)
(* to product 1, belongs to either account: productSize has a foreign key  *)
(* on idSize alone, not on the account of the size.                        *)

Accounts == {1, 2}

\* name, description and ingredients of a product, each a text (a sequence
\* of letters)
Text(letter) == << <<letter>>, <<letter, "o">>, <<"f", letter>> >>

ProductRow(id, acct, cat, cnf, txt, base, promo, rating, reviews, avail, act, del, created) ==
  [idProduct |-> id, idAccount |-> acct, idCategory |-> cat, idConfectioner |-> cnf,
   name |-> txt[1], description |-> txt[2], ingredients |-> txt[3],
   basePrice |-> base, promotionalPrice |-> promo,
   averageRating |-> rating, totalReviews |-> reviews,
   available |-> avail, active |-> act, deleted |-> del, dateCreated |-> created]

SizeRow(id, acct, modifier) ==
  [idSize |-> id, idAccount |-> acct, priceModifier |-> modifier, deleted |-> FALSE]

ConfectionerRow(id, acct, del) ==
  [idConfectioner |-> id, idAccount |-> acct, deleted |-> del]

CategoryRow(id, acct, del) ==
  [idCategory |-> id, idAccount |-> acct, deleted |-> del]

ProductFlavorRow(acct, prd, flv) ==
  [idAccount |-> acct, idProduct |-> prd, idFlavor |-> flv]

ProductSizeRow(acct, prd, siz) ==
  [idAccount |-> acct, idProduct |-> prd, idSize |-> siz]

CartProducts ==
  { ProductRow(1, 1, 1, 1, Text("b"), 20, NULL, 40, 5, TRUE, TRUE, FALSE, 1),
    ProductRow(2, 1, 1, 1, Text("t"), 30, 25, 45, 9, TRUE, TRUE, FALSE, 2),
    ProductRow(3, 2, 2, 2, Text("b"), 10, NULL, 30, 2, TRUE, TRUE, FALSE, 3),
    ProductRow(4, 1, 1, 1, Text("p"), 15, NULL, 0, 0, FALSE, TRUE, FALSE, 4) }

CartSizes(owner3) ==
  { SizeRow(1, 1, 2), SizeRow(2, 2, 5), SizeRow(3, owner3, 3) }

CartProductFlavors ==
  { ProductFlavorRow(1, 1, 1), ProductFlavorRow(1, 1, 2), ProductFlavorRow(1, 2, 1),
    ProductFlavorRow(2, 3, 3), ProductFlavorRow(1, 4, 1) }

CartProductSizes ==
  { ProductSizeRow(1, 1, 1), ProductSizeRow(1, 1, 3), ProductSizeRow(1, 2, 1),
    ProductSizeRow(2, 3, 2), ProductSizeRow(1, 4, 1) }

\* the callers: <<idAccount, idUser>>
Credentials == { <<1, 1>>, <<2, 1>>, <<2, 2>> }

\* the selections a caller sends: <<idProduct, idFlavor, idSize>>
Selections == { <<1, 1, 1>>, <<1, 1, 3>>, <<1, 2, 1>>, <<2, 1, 1>>, <<3, 3, 2>>,
                <<4, 1, 1>>, <<2, 2, 1>>, <<2, 1, 3>>, <<4, 2, 1>> }

Quantities == {0, 5, 6, 11}

\* observations: NULL, or a text (texts are numbered)
Observations == {NULL, 1}

CartItemAddArgs ==
  { [idAccount |-> c[1], idUser |-> c[2], idProduct |-> s[1], idFlavor |-> s[2],
     idSize |-> s[3], quantity |-> q, observations |-> o] :
       c \in Credentials, s \in Selections, q \in Quantities, o \in Observations }

NoCall == [proc |-> "", args |-> <<>>, error |-> NoError, recordset |-> <<>>]

----------------------------------------------------------------------------
(* The API: request values, zod schemas, errors and responses.  A text is  *)
(* a string; every text a request carries here is within the length limit  *)
(* of its schema.                                                          *)

\* a property that may be missing: <<>> is undefined, <<v>> holds v
Undefined == <<>>
Some(v) == <<v>>

\* the values of req.params, req.query (always strings) and of a JSON body
JNumber(n) == [type |-> "number", num |-> n, str |-> ""]
JString(s) == [type |-> "string", num |-> 0, str |-> s]
JNull == [type |-> "null", num |-> 0, str |-> ""]

NaN == 0 - 2

\* Number(text), on the texts requests carry
Number(text) ==
  CASE text = "" -> 0
    [] text = "0" -> 0
    [] text = "1" -> 1
    [] text = "2" -> 2
    [] text = "3" -> 3
    [] text = "4" -> 4
    [] text = "5" -> 5
    [] text = "9" -> 9
    [] text = "24" -> 24
    [] OTHER -> NaN

\* z.coerce: Number(input)
ToNumber(x) ==
  IF x = Undefined THEN NaN
  ELSE CASE x[1].type = "number" -> x[1].num
         [] x[1].type = "string" -> Number(x[1].str)
         [] x[1].type = "null" -> 0

\* zodValidation.ts line 42: zFK = z.coerce.number().int().positive()
zFK(x) ==
  LET n == ToNumber(x) IN [ok |-> n # NaN /\ n > 0, value |-> Some(n)]

\* z.coerce.number().int().positive().optional()
zOptionalPositiveInt(x) ==
  IF x = Undefined THEN [ok |-> TRUE, value |-> Undefined] ELSE zFK(x)

\* z.coerce.number().int().optional() and z.coerce.number().optional()
zOptionalNumber(x) ==
  IF x = Undefined THEN [ok |-> TRUE, value |-> Undefined]
  ELSE LET n == ToNumber(x) IN [ok |-> n # NaN, value |-> Some(n)]

\* z.string().optional()
zOptionalString(x) ==
  IF x = Undefined THEN [ok |-> TRUE, value |-> Undefined]
  ELSE [ok |-> x[1].type = "string", value |-> Some(x[1].str)]

\* z.number().int().min(1).max(10)
zQuantity(x) ==
  IF x = Undefined THEN [ok |-> FALSE, value |-> Undefined]
  ELSE [ok |-> x[1].type = "number" /\ x[1].num >= 1 /\ x[1].num <= 10,
        value |-> Some(x[1].num)]

\* zodValidation.ts lines 12-18: zNullableString(maxLength); undefined is
\* refused, null is accepted
zNullableString(x) ==
  IF x = Undefined THEN [ok |-> FALSE, value |-> Undefined]
  ELSE [ok |-> x[1].type \in {"string", "null"}, value |-> x]

\* a || b of JavaScript, for a number and for a string
OrNumber(x, d) == IF x = Undefined \/ x[1] = 0 \/ x[1] = NaN THEN d ELSE x[1]
OrString(x, d) == IF x = Undefined \/ x[1] = "" THEN d ELSE x[1]

\* the objects thrown: number, statusCode, code and message, 0 and "" for
\* a property the object does not have
ZodError ==
  [number |-> 0, statusCode |-> 0, code |-> "", message |-> "[zod issues]"]

\* the error mssql rejects with when the procedure raised err
RequestError(err) ==
  [number |-> err.number, statusCode |-> 0, code |-> "EREQUEST",
   message |-> err.message]

\* the error sql.connect rejects with when the server cannot be reached
ConnectionError ==
  [number |-> 0, statusCode |-> 0, code |-> "ESOCKET",
   message |-> "Failed to connect"]

\* crud.ts lines 132-136
StatusGeneralError ==
  [number |-> 0, statusCode |-> 500, code |-> "INTERNAL_SERVER_ERROR",
   message |-> "An unexpected error occurred"]

\* crud.ts lines 104-113, sent with res.json: status 200
successResponse(data) ==
  [status |-> 200, success |-> TRUE, code |-> "", message |-> "", data |-> data]

\* crud.ts lines 118-127 with no code given, sent with res.status(400)
errorResponse(message) ==
  [status |-> 400, success |-> FALSE, code |-> "VALIDATION_ERROR",
   message |-> message, data |-> <<>>]

\* the global error middleware, reached through next(error)
errorMiddleware(error) ==
  [status |-> IF error.statusCode # 0 THEN error.statusCode ELSE 500,
   success |-> FALSE,
   code |-> IF error.code # "" THEN error.code ELSE "INTERNAL_SERVER_ERROR",
   message |-> IF error.message # "" THEN error.message
               ELSE "An unexpected error occurred",
   data |-> <<>>]

\* crud.ts lines 79-82: the credential of every request
Credential == [idAccount |-> 1, idUser |-> 1]

\* the letters of a text bound to an NVARCHAR parameter, on the texts
\* requests carry
Chars(text) ==
  CASE text = "a" -> <<"a">>
    [] text = "fa" -> <<"f", "a">>
    [] OTHER -> <<"?">>

\* the numbers STRING_SPLIT and CAST make of a list of ids, on the lists
\* requests carry
IdList(text) ==
  CASE text = "1" -> <<1>>
    [] text = "1,2" -> <<1, 2>>
    [] OTHER -> <<0>>

\* the text of cartItem.observations is held as a number
ObservationsId(text) == IF text = "sem nozes" THEN 1 ELSE 2

\* text || null bound to a text parameter and to a parameter listing ids
TextOrNull(x) == IF x = Undefined \/ x[1] = "" THEN NULLTEXT ELSE Chars(x[1])
IdListOrNull(x) == IF x = Undefined \/ x[1] = "" THEN NULLTEXT ELSE IdList(x[1])

\* the outcome of a service function: the database after it, the procedure
\* call it made (NoCall if none), the error it threw and the data it returned
Executed(db, proc, a, out) ==
  [db |-> db,
   call |-> [proc |-> proc, args |-> a, error |-> out.error,
             recordset |-> out.recordset],
   thrown |-> IF out.error = NoError THEN Undefined
              ELSE Some(RequestError(out.error)),
   data |-> IF out.error = NoError THEN out.recordset ELSE <<>>]

\* getPool() rejects: no procedure is executed
Unreachable(db) ==
  [db |-> db, call |-> NoCall, thrown |-> Some(ConnectionError), data |-> <<>>]

\* index.ts lines 84-95: the inputs of spProductList
ProductListInputs(params) ==
  [idAccount |-> params.idAccount,
   page |-> OrNumber(params.page, 1),
   pageSize |-> OrNumber(params.pageSize, 12),
   sortBy |-> OrString(params.sortBy, "relevancia"),
   categories |-> IdListOrNull(params.categories),
   flavors |-> IdListOrNull(params.flavors),
   sizes |-> IdListOrNull(params.sizes),
   minPrice |-> OrNumber(params.minPrice, NULL),
   maxPrice |-> OrNumber(params.maxPrice, NULL),
   confectioners |-> IdListOrNull(params.confectioners),
   availability |-> OrString(params.availability, "disponivel"),
   searchTerm |-> TextOrNull(params.searchTerm)]

\* index.ts lines 79-102
productList(db, params, fault) ==
  IF fault THEN Unreachable(db)
  ELSE LET a == ProductListInputs(params) IN
       Executed(db, "spProductList", a, spProductList(db, a))

\* index.ts lines 118-133
productGet(db, params, fault) ==
  IF fault THEN Unreachable(db)
  ELSE LET a == [idAccount |-> params.idAccount, idProduct |-> params.idProduct[1]] IN
       Executed(db, "spProductGet", a, spProductGet(db, a))

\* index.ts lines 180-192
productRelated(db, params, fault) ==
  IF fault THEN Unreachable(db)
  ELSE LET a == [idAccount |-> params.idAccount,
                 idProduct |-> params.idProduct[1],
                 limit |-> OrNumber(params.limit, 4),
                 criteria |-> OrString(params.criteria, "categoria")] IN
       Executed(db, "spProductRelated", a, spProductRelated(db, a))

\* index.ts lines 149-164, called at time t
cartItemAdd(db, params, fault, t) ==
  IF fault THEN Unreachable(db)
  ELSE LET text == params.observations[1]
           a == [idAccount |-> params.idAccount, idUser |-> params.idUser,
                 idProduct |-> params.idProduct[1],
                 idFlavor |-> params.idFlavor[1],
                 idSize |-> params.idSize[1],
                 quantity |-> params.quantity[1],
                 observations |-> IF text.type = "null" \/ text.str = "" THEN NULL
                                  ELSE ObservationsId(text.str)]
           out == spCartItemAdd(db, a, t)
       IN Executed(out.db, "spCartItemAdd", a, out)

\* the names of the values a request can carry in its path, query or body
Keys == {"id", "page", "pageSize", "sortBy", "categories", "flavors", "sizes",
         "minPrice", "maxPrice", "confectioners", "availability", "searchTerm",
         "limit", "criteria", "idProduct", "idFlavor", "idSize", "quantity",
         "observations", "idAccount", "idUser"}

\* an object with none of them
NoValues == [k \in Keys |-> Undefined]

\* crud.ts lines 47-49 and 86-88: for a READ, validate parses req.params
read(req) == req.params

\* crud.ts lines 40-42 and 90-92: for a CREATE, validate parses req.body
create(req) == req.body

\* notFound.ts lines 63-75: querySchema of listHandler
ListQuerySchema(raw) ==
  LET page == zOptionalPositiveInt(raw.page)
      pageSize == zOptionalNumber(raw.pageSize)
      sortBy == zOptionalString(raw.sortBy)
      categories == zOptionalString(raw.categories)
      flavors == zOptionalString(raw.flavors)
      sizes == zOptionalString(raw.sizes)
      minPrice == zOptionalNumber(raw.minPrice)
      maxPrice == zOptionalNumber(raw.maxPrice)
      confectioners == zOptionalString(raw.confectioners)
      availability == zOptionalString(raw.availability)
      searchTerm == zOptionalString(raw.searchTerm)
  IN [ok |-> /\ page.ok /\ pageSize.ok /\ sortBy.ok /\ categories.ok
             /\ flavors.ok /\ sizes.ok /\ minPrice.ok /\ maxPrice.ok
             /\ confectioners.ok /\ availability.ok /\ searchTerm.ok,
      value |-> [page |-> page.value, pageSize |-> pageSize.value,
                 sortBy |-> sortBy.value, categories |-> categories.value,
                 flavors |-> flavors.value, sizes |-> sizes.value,
                 minPrice |-> minPrice.value, maxPrice |-> maxPrice.value,
                 confectioners |-> confectioners.value,
                 availability |-> availability.value,
                 searchTerm |-> searchTerm.value]]

\* notFound.ts lines 121-123 and 171-173: paramsSchema
ParamsSchema(raw) ==
  LET id == zFK(raw.id) IN [ok |-> id.ok, value |-> [id |-> id.value]]

\* notFound.ts lines 175-178: querySchema of relatedHandler
RelatedQuerySchema(raw) ==
  LET limit == zOptionalPositiveInt(raw.limit)
      criteria == zOptionalString(raw.criteria)
  IN [ok |-> limit.ok /\ criteria.ok,
      value |-> [limit |-> limit.value, criteria |-> criteria.value]]

\* bodySchema with .passthrough(): the properties it does not name are
\* kept as the request gave them
BodySchemaPassthrough(raw) ==
  LET idProduct == zFK(raw.idProduct)
      idFlavor == zFK(raw.idFlavor)
      idSize == zFK(raw.idSize)
      quantity == zQuantity(raw.quantity)
      observations == zNullableString(raw.observations)
      others == {k \in {"idAccount", "idUser"} : raw[k] # Undefined}
  IN [ok |-> /\ idProduct.ok /\ idFlavor.ok /\ idSize.ok /\ quantity.ok
             /\ observations.ok,
      value |-> [idProduct |-> idProduct.value, idFlavor |-> idFlavor.value,
                 idSize |-> idSize.value, quantity |-> quantity.value,
                 observations |-> observations.value]
                @@ [k \in others |-> raw[k][1].num]]

\* notFound.ts lines 231-237: bodySchema.  z.object() leaves out of its
\* result every property it does not name.
BodySchema(raw) ==
  LET idProduct == zFK(raw.idProduct)
      idFlavor == zFK(raw.idFlavor)
      idSize == zFK(raw.idSize)
      quantity == zQuantity(raw.quantity)
      observations == zNullableString(raw.observations)
  IN [ok |-> /\ idProduct.ok /\ idFlavor.ok /\ idSize.ok /\ quantity.ok
             /\ observations.ok,
      value |-> [idProduct |-> idProduct.value, idFlavor |-> idFlavor.value,
                 idSize |-> idSize.value, quantity |-> quantity.value,
                 observations |-> observations.value]]

\* the catch block with the original error handed to the middleware
CatchBlockForwardsError(error) ==
  IF error.number = UserError THEN errorResponse(error.message)
  ELSE errorMiddleware(error)

\* notFound.ts lines 90-96, 138-144, 196-202 and 252-258: the catch block
\* of each handler
CatchBlock(error) ==
  IF error.number = UserError THEN errorResponse(error.message)
  ELSE errorMiddleware(StatusGeneralError)

\* the try block's end: res.json(successResponse(data)), or the catch block
Respond(result) ==
  [db |-> result.db, call |-> result.call,
   response |-> IF result.thrown = Undefined THEN successResponse(result.data)
                ELSE CatchBlock(result.thrown[1])]

\* if (!validated) return next(error): no service function is called
Rejected(db, error) ==
  [db |-> db, call |-> NoCall, response |-> errorMiddleware(error)]

\* notFound.ts lines 60-97
listHandler(db, req) ==
  LET validated == ListQuerySchema(read(req)) IN
  IF ~ validated.ok THEN Rejected(db, ZodError)
  ELSE Respond(productList(db, validated.value @@ Credential, req.fault))

\* notFound.ts lines 118-145
getHandler(db, req) ==
  LET validated == ParamsSchema(read(req)) IN
  IF ~ validated.ok THEN Rejected(db, ZodError)
  ELSE Respond(productGet(db, [idProduct |-> validated.value.id] @@ Credential,
                          req.fault))

\* notFound.ts lines 164-203: querySchema.parse(req.query) runs inside the
\* try block
relatedHandler(db, req) ==
  LET validated == ParamsSchema(read(req))
      query == RelatedQuerySchema(req.query)
  IN IF ~ validated.ok THEN Rejected(db, ZodError)
     ELSE IF ~ query.ok
          THEN [db |-> db, call |-> NoCall, response |-> CatchBlock(ZodError)]
          ELSE Respond(productRelated(db, query.value
                                            @@ [idProduct |-> validated.value.id]
                                            @@ Credential, req.fault))

\* notFound.ts lines 224-259, called at time t
addToCartHandler(db, req, t) ==
  LET validated == BodySchema(create(req)) IN
  IF ~ validated.ok THEN Rejected(db, ZodError)
  ELSE Respond(cartItemAdd(db, validated.value @@ Credential, req.fault, t))

\* before the first request
NoRequest ==
  [route |-> "", params |-> NoValues, query |-> NoValues, body |-> NoValues,
   fault |-> FALSE]

NoResponse ==
  [status |-> 0, success |-> FALSE, code |-> "", message |-> "", data |-> <<>>]

\* a connection before its call: no statement run, no lock held
Idle ==
  [pc |-> "idle", args |-> <<>>, time |-> 0, idCart |-> NULL, unitPrice |-> NULL,
   idCartItem |-> NULL, existingQuantity |-> 0, locks |-> {}, inserted |-> {},
   error |-> NoError, recordset |-> <<>>]

Sessions == 1..NumSessions

NoSessions == [s \in Sessions |-> Idle]

----------------------------------------------------------------------------
(* The cart's calls *)

Init ==
  /\ product = CartProducts
  /\ \E owner3 \in Accounts : size = CartSizes(owner3)
  /\ confectioner = {ConfectionerRow(1, 1, FALSE), ConfectionerRow(2, 2, FALSE)}
  /\ category = {CategoryRow(1, 1, FALSE), CategoryRow(2, 2, FALSE)}
  /\ productFlavor = CartProductFlavors
  /\ productSize = CartProductSizes
  /\ cart = {}
  /\ cartItem = {}
  /\ identCart = 0
  /\ identCartItem = 0
  /\ now = 0
  /\ call = NoCall
  /\ request = NoRequest
  /\ response = NoResponse
  /\ session = NoSessions

\* EXEC [functional].[spCartItemAdd] with arguments a
CartItemAdd(a) ==
  /\ now < MaxCalls
  /\ LET out == spCartItemAdd(DB, a, now + 1) IN
       /\ cart' = out.db.cart
       /\ cartItem' = out.db.cartItem
       /\ identCart' = out.db.identCart
       /\ identCartItem' = out.db.identCartItem
       /\ call' = [proc |-> "spCartItemAdd", args |-> a,
                   error |-> out.error, recordset |-> out.recordset]
  /\ now' = now + 1
  /\ UNCHANGED <<catalogVars, request, response, session>>

Next == \E a \in CartItemAddArgs : CartItemAdd(a)

Spec == Init /\ [][Next]_vars

----------------------------------------------------------------------------
(* The API over the storefront's data: requests to the four routes of      *)
(* the internal router, each handled to its response.  fault says that     *)
(* the database server cannot be reached while the request is handled.     *)

\* the query strings of GET /product: none, or one value
ListQueries ==
  {NoValues}
  \cup {[NoValues EXCEPT !.page = Some(JString(v))] : v \in {"1", "2", "0", "abc"}}
  \cup {[NoValues EXCEPT !.pageSize = Some(JString("24"))],
        [NoValues EXCEPT !.sortBy = Some(JString("preco_menor"))],
        [NoValues EXCEPT !.availability = Some(JString("todos"))],
        [NoValues EXCEPT !.minPrice = Some(JString("5"))],
        [NoValues EXCEPT !.categories = Some(JString("1"))],
        [NoValues EXCEPT !.searchTerm = Some(JString("a"))],
        [NoValues EXCEPT !.idAccount = Some(JString("2"))]}

\* the :id of a path
PathIds == {"1", "2", "3", "4", "9", "0", "abc"}

\* the query strings of GET /product/:id/related
RelatedQueries ==
  {[NoValues EXCEPT !.limit = l, !.criteria = c] :
     l \in {Undefined, Some(JString("2")), Some(JString("0"))},
     c \in {Undefined, Some(JString("sabor")), Some(JString("preco"))}}
  \cup {[NoValues EXCEPT !.idAccount = Some(JString("2"))]}

\* the bodies of POST /cart/item
Bodies ==
  {[NoValues EXCEPT !.idProduct = Some(p), !.idFlavor = Some(JNumber(f)),
                    !.idSize = Some(JNumber(1)), !.quantity = Some(q),
                    !.observations = o] :
     p \in {JNumber(1), JNumber(2), JNumber(0), JString("1")},
     f \in {1, 2},
     q \in {JNumber(0), JNumber(5), JNumber(6), JNumber(11), JString("5")},
     o \in {Undefined, Some(JNull), Some(JString("sem nozes"))}}
  \cup {[NoValues EXCEPT !.idProduct = Some(JNumber(1)), !.idFlavor = Some(JNumber(1)),
                         !.idSize = Some(JNumber(1)), !.quantity = Some(JNumber(5)),
                         !.observations = Some(JNull),
                         !.idAccount = Some(JNumber(acct)),
                         !.idUser = Some(JNumber(2))] : acct \in {1, 2}}

\* the request req was handled with outcome out
Handled(req, out) ==
  /\ now < MaxCalls
  /\ now' = now + 1
  /\ request' = req
  /\ response' = out.response
  /\ call' = out.call
  /\ cart' = out.db.cart
  /\ cartItem' = out.db.cartItem
  /\ identCart' = out.db.identCart
  /\ identCartItem' = out.db.identCartItem
  /\ UNCHANGED <<catalogVars, session>>

\* GET /api/v1/internal/product
ListRequest(query, fault) ==
  LET req == [route |-> "GET /product", params |-> NoValues, query |-> query,
              body |-> NoValues, fault |-> fault]
  IN Handled(req, listHandler(DB, req))

\* GET /api/v1/internal/product/:id
GetRequest(id, fault) ==
  LET req == [route |-> "GET /product/:id",
              params |-> [NoValues EXCEPT !.id = Some(JString(id))],
              query |-> NoValues, body |-> NoValues, fault |-> fault]
  IN Handled(req, getHandler(DB, req))

\* GET /api/v1/internal/product/:id/related
RelatedRequest(id, query, fault) ==
  LET req == [route |-> "GET /product/:id/related",
              params |-> [NoValues EXCEPT !.id = Some(JString(id))],
              query |-> query, body |-> NoValues, fault |-> fault]
  IN Handled(req, relatedHandler(DB, req))

\* POST /api/v1/internal/cart/item
AddToCartRequest(body, fault) ==
  LET req == [route |-> "POST /cart/item", params |-> NoValues,
              query |-> NoValues, body |-> body, fault |-> fault]
  IN Handled(req, addToCartHandler(DB, req, now + 1))

NextApi ==
  \/ \E query \in ListQueries, fault \in BOOLEAN : ListRequest(query, fault)
  \/ \E id \in PathIds, fault \in BOOLEAN : GetRequest(id, fault)
  \/ \E id \in PathIds, query \in RelatedQueries, fault \in BOOLEAN :
       RelatedRequest(id, query, fault)
  \/ \E body \in Bodies, fault \in BOOLEAN : AddToCartRequest(body, fault)

SpecApi == Init /\ [][NextApi]_vars

----------------------------------------------------------------------------
(* The catalog the queries run against: NumProducts products, each one of *)
(* the kinds below.                                                        *)

NumProducts == 3

\* a kind of product: its row without the idProduct, its flavors, its sizes
Kind(acct, cat, cnf, letter, base, promo, rating, reviews, avail, act, del, created, flv, siz) ==
  [row |-> ProductRow(0, acct, cat, cnf, Text(letter), base, promo, rating, reviews,
                      avail, act, del, created),
   flavors |-> flv, sizes |-> siz]

Kinds ==
  { Kind(1, 1, 1, "b", 20, NULL, 40, 5, TRUE, TRUE, FALSE, 1, {1}, {1}),
    Kind(1, 2, 2, "t", 30, 25, 30, 9, TRUE, TRUE, FALSE, 3, {2}, {2}),
    Kind(1, 1, 2, "p", 10, NULL, 45, 5, TRUE, TRUE, FALSE, 2, {1, 2}, {1, 2}),
    Kind(2, 3, 3, "b", 20, 15, 50, 9, TRUE, TRUE, FALSE, 4, {1}, {3}),
    Kind(1, 1, 1, "t", 20, NULL, 50, 9, FALSE, TRUE, FALSE, 5, {1}, {1}),
    Kind(1, 1, 1, "b", 20, 15, 50, 9, TRUE, FALSE, FALSE, 6, {1}, {1}),
    Kind(1, 1, 1, "b", 20, NULL, 50, 9, TRUE, TRUE, TRUE, 7, {1}, {1}),
    Kind(1, 1, 4, "b", 20, NULL, 50, 9, TRUE, TRUE, FALSE, 8, {1}, {1}) }

CatalogConfectioners ==
  { ConfectionerRow(1, 1, FALSE), ConfectionerRow(2, 1, FALSE),
    ConfectionerRow(3, 2, FALSE), ConfectionerRow(4, 1, TRUE) }

CatalogCategories ==
  { CategoryRow(1, 1, FALSE), CategoryRow(2, 1, FALSE), CategoryRow(3, 2, FALSE) }

CatalogSizes == { SizeRow(1, 1, 0), SizeRow(2, 1, 5), SizeRow(3, 2, 3) }

InitCatalog ==
  /\ \E kind \in [1..NumProducts -> Kinds] :
       /\ product = {[kind[i].row EXCEPT !.idProduct = i] : i \in 1..NumProducts}
       /\ productFlavor = UNION {{ProductFlavorRow(kind[i].row.idAccount, i, f) :
                                    f \in kind[i].flavors} : i \in 1..NumProducts}
       /\ productSize = UNION {{ProductSizeRow(kind[i].row.idAccount, i, z) :
                                  z \in kind[i].sizes} : i \in 1..NumProducts}
  /\ size = CatalogSizes
  /\ confectioner = CatalogConfectioners
  /\ category = CatalogCategories
  /\ cart = {}
  /\ cartItem = {}
  /\ identCart = 0
  /\ identCartItem = 0
  /\ now = 0
  /\ call = NoCall
  /\ request = NoRequest
  /\ response = NoResponse
  /\ session = NoSessions

\* the product ids a caller asks for: those of the table and one beyond it
ProductIds == 1..(NumProducts + 1)

Limits == {1, 2, DefaultLimit}

ProductRelatedArgs ==
  [idAccount : Accounts, idProduct : ProductIds, limit : Limits,
   criteria : Criteria \cup {"preco"}]

ProductGetArgs == [idAccount : Accounts, idProduct : ProductIds]

\* the parameter defaults of spProductList (lines 258-268)
DefaultListArgs(acct) ==
  [idAccount |-> acct, page |-> 1, pageSize |-> 12, sortBy |-> "relevancia",
   categories |-> NULLTEXT, flavors |-> NULLTEXT, sizes |-> NULLTEXT,
   minPrice |-> NULL, maxPrice |-> NULL, confectioners |-> NULLTEXT,
   availability |-> "disponivel", searchTerm |-> NULLTEXT]

\* the calls of spProductList: the defaults with one part set
ProductListArgs ==
  UNION { LET d == DefaultListArgs(acct) IN
          {[d EXCEPT !.page = v] : v \in {0, 1, 2}}
          \cup {[d EXCEPT !.pageSize = v] : v \in {10, 24}}
          \cup {[d EXCEPT !.sortBy = v] : v \in SortBys \cup {"nome"}}
          \cup {[d EXCEPT !.availability = v] : v \in Availabilities \cup {"esgotado"}}
          \cup {[d EXCEPT !.categories = v] : v \in {<<1>>, <<2, 3>>}}
          \cup {[d EXCEPT !.confectioners = v] : v \in {<<2>>, <<1, 4>>}}
          \cup {[d EXCEPT !.flavors = v] : v \in {<<2>>}}
          \cup {[d EXCEPT !.sizes = v] : v \in {<<2>>}}
          \cup {[d EXCEPT !.searchTerm = v] : v \in {<<"t">>, <<"f", "b">>}}
          \cup {[d EXCEPT !.minPrice = v[1], !.maxPrice = v[2]] :
                  v \in {<<15, NULL>>, <<NULL, 20>>, <<20, 20>>, <<25, 15>>}}
          \cup {[d EXCEPT !.page = 0, !.pageSize = 10, !.sortBy = "nome"]}
        : acct \in Accounts }

\* a query reads the tables and writes none: one call on each catalog shows
\* all it can do

\* EXEC [functional].[spProductRelated] with arguments a
ProductRelated(a) ==
  /\ call = NoCall
  /\ LET out == spProductRelated(DB, a) IN
       call' = [proc |-> "spProductRelated", args |-> a,
                error |-> out.error, recordset |-> out.recordset]
  /\ UNCHANGED <<catalogVars, cart, cartItem, identCart, identCartItem, now,
                 request, response, session>>

\* EXEC [functional].[spProductGet] with arguments a
ProductGet(a) ==
  /\ call = NoCall
  /\ LET out == spProductGet(DB, a) IN
       call' = [proc |-> "spProductGet", args |-> a,
                error |-> out.error, recordset |-> out.recordset]
  /\ UNCHANGED <<catalogVars, cart, cartItem, identCart, identCartItem, now,
                 request, response, session>>

\* EXEC [functional].[spProductList] with arguments a
ProductList(a) ==
  /\ call = NoCall
  /\ LET out == spProductList(DB, a) IN
       call' = [proc |-> "spProductList", args |-> a,
                error |-> out.error, recordset |-> out.recordset]
  /\ UNCHANGED <<catalogVars, cart, cartItem, identCart, identCartItem, now,
                 request, response, session>>

NextCatalog ==
  \/ \E a \in ProductRelatedArgs : ProductRelated(a)
  \/ \E a \in ProductGetArgs : ProductGet(a)
  \/ \E a \in ProductListArgs : ProductList(a)

SpecCatalog == InitCatalog /\ [][NextCatalog]_vars

----------------------------------------------------------------------------
(* spCartItemAdd statement by statement: NumSessions connections, each     *)
(* making one call, their statements interleaved.  The procedure sets no   *)
(* isolation level and takes no lock hint, so it runs at READ COMMITTED    *)
(* with locking: a SELECT waits for a row another transaction has written  *)
(* and not yet committed, and keeps no lock once it has read; an INSERT    *)
(* or UPDATE locks its row until COMMIT or ROLLBACK.  A write is made in   *)
(* the table at once, under its lock.  The validations and the price read  *)
(* tables no call writes, so each is taken together with the statement     *)
(* that follows it.                                                        *)

\* what the connections ask for: the API's credential, two selections of
\* product 1, a quantity below 1 and two within the limits
ConcurrentArgs ==
  { [idAccount |-> Credential.idAccount, idUser |-> Credential.idUser,
     idProduct |-> 1, idFlavor |-> f, idSize |-> 1, quantity |-> q,
     observations |-> NULL] : f \in {1, 2}, q \in {0, 3, 6} }

\* the database of Init with sizes as its size table
EmptyCartDB(sizes) ==
  [product |-> CartProducts, size |-> sizes,
   confectioner |-> {ConfectionerRow(1, 1, FALSE), ConfectionerRow(2, 2, FALSE)},
   category |-> {CategoryRow(1, 1, FALSE), CategoryRow(2, 2, FALSE)},
   productFlavor |-> CartProductFlavors, productSize |-> CartProductSizes,
   cart |-> {}, cartItem |-> {}, identCart |-> 0, identCartItem |-> 0]

\* the connections start on the database of Init, or on the one a first
\* call, made alone, has left
InitConcurrent ==
  /\ product = CartProducts
  /\ \E owner3 \in Accounts : size = CartSizes(owner3)
  /\ confectioner = {ConfectionerRow(1, 1, FALSE), ConfectionerRow(2, 2, FALSE)}
  /\ category = {CategoryRow(1, 1, FALSE), CategoryRow(2, 2, FALSE)}
  /\ productFlavor = CartProductFlavors
  /\ productSize = CartProductSizes
  /\ \E first \in BOOLEAN, a \in ConcurrentArgs :
       LET out == spCartItemAdd(EmptyCartDB(size), a, 1) IN
       IF first
       THEN /\ cart = out.db.cart
            /\ cartItem = out.db.cartItem
            /\ identCart = out.db.identCart
            /\ identCartItem = out.db.identCartItem
            /\ now = 1
            /\ call = [proc |-> "spCartItemAdd", args |-> a,
                       error |-> out.error, recordset |-> out.recordset]
       ELSE /\ cart = {}
            /\ cartItem = {}
            /\ identCart = 0
            /\ identCartItem = 0
            /\ now = 0
            /\ call = NoCall
  /\ request = NoRequest
  /\ response = NoResponse
  /\ session = NoSessions

\* another connection holds the lock of a row among ids of the table
LockedByOthers(s, table, ids) ==
  \E o \in Sessions \ {s} : \E id \in ids : <<table, id>> \in session[o].locks

\* connection s moves on, its variables set as in next
Step(s, next) == session' = [session EXCEPT ![s] = next]

\* lines 70-177: EXEC with arguments a; the validations, then BEGIN TRAN.
\* Connections are taken in order.
Begin(s, a) ==
  /\ session[s].pc = "idle"
  /\ \A o \in Sessions : o < s => session[o].pc # "idle"
  /\ LET invalid == CartItemAddValidation(DB, a) IN
     Step(s, IF invalid # ""
             THEN [session[s] EXCEPT !.pc = "done", !.args = a, !.time = now + 1,
                                     !.error = Thrown(invalid)]
             ELSE [session[s] EXCEPT !.pc = "selectCart", !.args = a,
                                     !.time = now + 1])
  /\ now' = now + 1
  /\ UNCHANGED <<catalogVars, cart, cartItem, identCart, identCartItem, call,
                 request, response>>

\* lines 188-191: SELECT @idCart = idCart; of several carts of the user,
\* any may be the one assigned
SelectCart(s) ==
  /\ session[s].pc = "selectCart"
  /\ LET carts == UserCarts(DB, session[s].args) IN
       /\ ~ LockedByOthers(s, "cart", {crt.idCart : crt \in carts})
       /\ IF carts = {}
          THEN Step(s, [session[s] EXCEPT !.pc = "insertCart"])
          ELSE \E crt \in carts :
                 Step(s, [session[s] EXCEPT !.pc = "selectItem",
                                            !.idCart = crt.idCart])
  /\ UNCHANGED <<catalogVars, cart, cartItem, identCart, identCartItem, now,
                 call, request, response>>

\* lines 193-199: IF (@idCart IS NULL) INSERT INTO cart
InsertCart(s) ==
  /\ session[s].pc = "insertCart"
  /\ LET a == session[s].args
         idCart == identCart + 1
     IN /\ identCart' = idCart
        /\ cart' = cart \cup {[idCart |-> idCart, idAccount |-> a.idAccount,
                               idUser |-> a.idUser,
                               dateCreated |-> session[s].time,
                               dateModified |-> session[s].time]}
        /\ Step(s, [session[s] EXCEPT
                      !.pc = "selectItem", !.idCart = idCart,
                      !.locks = @ \cup {<<"cart", idCart>>},
                      !.inserted = @ \cup {<<"cart", idCart>>}])
  /\ UNCHANGED <<catalogVars, cartItem, identCartItem, now, call, request,
                 response>>

\* lines 204-224: the unit price, then SELECT @idCartItem, @existingQuantity,
\* found through ixCartItem_Cart; of several matching rows, any may be the
\* one assigned
SelectItem(s) ==
  /\ session[s].pc = "selectItem"
  /\ LET a == session[s].args
         idCart == session[s].idCart
         inCart == {crtItm \in cartItem : crtItm.idAccount = a.idAccount
                                          /\ crtItm.idCart = idCart}
         matching == MatchingCartItems(DB, a, idCart)
     IN /\ ~ LockedByOthers(s, "cartItem", {crtItm.idCartItem : crtItm \in inCart})
        /\ IF matching = {}
           THEN Step(s, [session[s] EXCEPT !.pc = "insertItem",
                                           !.unitPrice = CartUnitPrice(DB, a)])
           ELSE \E crtItm \in matching :
                  Step(s, [session[s] EXCEPT
                             !.pc = "updateItem",
                             !.unitPrice = CartUnitPrice(DB, a),
                             !.idCartItem = crtItm.idCartItem,
                             !.existingQuantity = crtItm.quantity])
  /\ UNCHANGED <<catalogVars, cart, cartItem, identCart, identCartItem, now,
                 call, request, response>>

\* lines 232-244: @newQuantity within the limit, UPDATE cartItem
UpdateItem(s) ==
  /\ session[s].pc = "updateItem"
  /\ LET a == session[s].args
         newQuantity == NewQuantity(session[s].existingQuantity, a.quantity)
     IN /\ ~ ExceedsMaximum(newQuantity)
        /\ ~ LockedByOthers(s, "cartItem", {session[s].idCartItem})
        /\ cartItem' = UpdateCartItem(cartItem, session[s].idCartItem, newQuantity,
                                      session[s].unitPrice, a.observations)
        /\ Step(s, [session[s] EXCEPT
                      !.pc = "touchCart",
                      !.locks = @ \cup {<<"cartItem", session[s].idCartItem>>}])
  /\ UNCHANGED <<catalogVars, cart, identCart, identCartItem, now, call, request,
                 response>>

\* lines 232-237 and 303-306: @newQuantity beyond the limit, THROW, and the
\* CATCH block: ROLLBACK TRAN takes out the rows the transaction inserted
\* (no UPDATE comes before this THROW) and gives up its locks
Rollback(s) ==
  /\ session[s].pc = "updateItem"
  /\ ExceedsMaximum(NewQuantity(session[s].existingQuantity,
                                session[s].args.quantity))
  /\ cart' = {crt \in cart : <<"cart", crt.idCart>> \notin session[s].inserted}
  /\ cartItem' = {crtItm \in cartItem :
                    <<"cartItem", crtItm.idCartItem>> \notin session[s].inserted}
  /\ Step(s, [session[s] EXCEPT !.pc = "done", !.locks = {}, !.inserted = {},
                                !.error = Thrown("quantityExceedsMaximum")])
  /\ UNCHANGED <<catalogVars, identCart, identCartItem, now, call, request,
                 response>>

\* lines 246-275: INSERT INTO cartItem
InsertItem(s) ==
  /\ session[s].pc = "insertItem"
  /\ LET a == session[s].args
         idCartItem == identCartItem + 1
     IN /\ identCartItem' = idCartItem
        /\ cartItem' = cartItem \cup
             {NewCartItem(a, idCartItem, session[s].idCart, session[s].unitPrice,
                          Times(session[s].unitPrice, a.quantity), session[s].time)}
        /\ Step(s, [session[s] EXCEPT
                      !.pc = "touchCart", !.idCartItem = idCartItem,
                      !.locks = @ \cup {<<"cartItem", idCartItem>>},
                      !.inserted = @ \cup {<<"cartItem", idCartItem>>}])
  /\ UNCHANGED <<catalogVars, cart, identCart, now, call, request, response>>

\* lines 280-282: UPDATE cart SET dateModified
TouchCartRow(s) ==
  /\ session[s].pc = "touchCart"
  /\ ~ LockedByOthers(s, "cart", {session[s].idCart})
  /\ cart' = TouchCart(cart, session[s].idCart, session[s].time)
  /\ Step(s, [session[s] EXCEPT
                !.pc = "commit", !.locks = @ \cup {<<"cart", session[s].idCart>>}])
  /\ UNCHANGED <<catalogVars, cartItem, identCart, identCartItem, now, call,
                 request, response>>

\* lines 284-301: COMMIT TRAN and the CartItemAdded result row
Commit(s) ==
  /\ session[s].pc = "commit"
  /\ Step(s, [session[s] EXCEPT
                !.pc = "done", !.locks = {}, !.inserted = {},
                !.recordset =
                  <<CartItemAdded(session[s].idCartItem, session[s].idCart,
                                  session[s].args, session[s].unitPrice,
                                  Times(session[s].unitPrice,
                                        session[s].args.quantity))>>])
  /\ UNCHANGED <<catalogVars, cart, cartItem, identCart, identCartItem, now,
                 call, request, response>>

NextConcurrent ==
  \E s \in Sessions :
    \/ \E a \in ConcurrentArgs : Begin(s, a)
    \/ SelectCart(s)
    \/ InsertCart(s)
    \/ SelectItem(s)
    \/ UpdateItem(s)
    \/ Rollback(s)
    \/ InsertItem(s)
    \/ TouchCartRow(s)
    \/ Commit(s)

SpecConcurrent == InitConcurrent /\ [][NextConcurrent]_vars

----------------------------------------------------------------------------
(* What the claims speak of *)

\* the arguments pass every validation of spCartItemAdd
ValidArguments(a) == CartItemAddValidation(DB, a) = ""

\* the rows, among itemRows, of a cart of the caller (account and user of a)
\* holding the product, flavor and size of a
SameSelection(cartRows, itemRows, a) ==
  {r \in itemRows :
     /\ r.idProduct = a.idProduct
     /\ r.idFlavor = a.idFlavor
     /\ r.idSize = a.idSize
     /\ \E c \in cartRows :
          c.idCart = r.idCart /\ c.idAccount = a.idAccount /\ c.idUser = a.idUser}

\* the last call was spCartItemAdd and it succeeded
AddSucceeded == call.proc = "spCartItemAdd" /\ call.error = NoError

\* the rows the last call inserted
InsertedRows == {r \in cartItem : AddSucceeded /\ r.dateCreated = now
                                   /\ r.idCartItem = call.recordset[1].idCartItem}

\* the rows the last call merged a quantity into
MergedRows == {r \in cartItem : AddSucceeded /\ r.dateCreated < now
                                 /\ r.idCartItem = call.recordset[1].idCartItem}

\* every row written keeps the table's constraints: no write is refused
ConstraintsKept ==
  \A r \in cartItem :
    chkCartItem_Quantity(r.quantity) /\ r.unitPrice # NULL /\ r.totalPrice # NULL

----------------------------------------------------------------------------
(* Claims about spCartItemAdd *)

\* C1: after any sequence of spCartItemAdd calls from an empty cart, whether
\* they succeed or fail, every cartItem row has a quantity from 1 to 10.
C1_QuantityBetween1And10 ==
  \A r \in cartItem : r.quantity >= 1 /\ r.quantity <= 10

\* a call was refused for exceeding the limit next to a row it would have
\* raised above 10, and a row stands at the limit
C1_Witness ==
  /\ call.proc = "spCartItemAdd"
  /\ call.error = Thrown("quantityExceedsMaximum")
  /\ call.args.quantity <= 10
  /\ \E r \in SameSelection(cart, cartItem, call.args) :
       r.quantity + call.args.quantity > 10

\* C2: a valid call for a selection the user's cart already holds with
\* quantity q, q + quantity <= 10, inserts no row, sets that row's quantity
\* to q + quantity and returns that row's idCartItem.
C2_MergeStep ==
  call'.proc = "spCartItemAdd" =>
    LET a == call'.args IN
    \A r \in SameSelection(cart, cartItem, a) :
      (ValidArguments(a) /\ r.quantity + a.quantity <= 10) =>
        /\ call'.error = NoError
        /\ {x.idCartItem : x \in cartItem'} = {x.idCartItem : x \in cartItem}
        /\ Cardinality(cartItem') = Cardinality(cartItem)
        /\ \E r2 \in cartItem' :
             r2.idCartItem = r.idCartItem /\ r2.quantity = r.quantity + a.quantity
        /\ Len(call'.recordset) = 1
        /\ call'.recordset[1].idCartItem = r.idCartItem

C2_MergeAddsQuantity == [][C2_MergeStep]_vars

\* a call merged into an existing row, which now stands at the limit
C2_Witness ==
  \E r \in MergedRows : r.quantity = 10 /\ r.quantity > call.args.quantity

\* C3: a valid call for a selection the user's cart does not hold inserts
\* exactly one row, in the user's cart, with the requested product, flavor,
\* size and quantity, and leaves every other row of cartItem as it was.
C3_InsertStep ==
  call'.proc = "spCartItemAdd" =>
    LET a == call'.args IN
    (ValidArguments(a) /\ SameSelection(cart, cartItem, a) = {}) =>
      \E n \in cartItem' :
        /\ n \notin cartItem
        /\ cartItem' = cartItem \cup {n}
        /\ \A r \in cartItem : r.idCartItem # n.idCartItem
        /\ n.idProduct = a.idProduct
        /\ n.idFlavor = a.idFlavor
        /\ n.idSize = a.idSize
        /\ n.quantity = a.quantity
        /\ n.idAccount = a.idAccount
        /\ \E c \in cart' :
             c.idCart = n.idCart /\ c.idAccount = a.idAccount /\ c.idUser = a.idUser

C3_InsertLeavesOthers == [][C3_InsertStep]_vars

\* a call inserted a row into a table that already held another row
C3_Witness ==
  \E n \in InsertedRows : \E r \in cartItem : r.idCartItem # n.idCartItem

\* C4: a valid call that would raise the matching row above 10 fails with
\* error 51000 'quantityExceedsMaximum', and the row keeps its quantity,
\* totalPrice and observations.
C4_ExceedStep ==
  call'.proc = "spCartItemAdd" =>
    LET a == call'.args IN
    \A r \in SameSelection(cart, cartItem, a) :
      (ValidArguments(a) /\ r.quantity + a.quantity > 10) =>
        /\ call'.error.number = 51000
        /\ call'.error.message = "quantityExceedsMaximum"
        /\ \E r2 \in cartItem' :
             /\ r2.idCartItem = r.idCartItem
             /\ r2.quantity = r.quantity
             /\ r2.totalPrice = r.totalPrice
             /\ r2.observations = r.observations

C4_ExceedFailsAndKeepsRow == [][C4_ExceedStep]_vars

\* a call with a quantity of its own within the limit was refused, and the
\* matching row carries observations the call would have replaced
C4_Witness ==
  /\ call.proc = "spCartItemAdd"
  /\ call.error = Thrown("quantityExceedsMaximum")
  /\ call.args.quantity \in 1..10
  /\ \E r \in SameSelection(cart, cartItem, call.args) :
       r.observations # call.args.observations

----------------------------------------------------------------------------
(* Account isolation *)

\* the database with the data of every account but acct changed: their
\* sizes cost one more, their products cost one more and flip their
\* availability, their confectioners and categories flip their deletion
\* mark, and their links, carts and cart items are gone
OtherAccountsChanged(db, acct) ==
  [db EXCEPT
     !.size = {IF r.idAccount = acct THEN r
               ELSE [r EXCEPT !.priceModifier = @ + 1] : r \in db.size},
     !.product = {IF r.idAccount = acct THEN r
                  ELSE [r EXCEPT !.basePrice = @ + 1, !.available = ~@] : r \in db.product},
     !.confectioner = {IF r.idAccount = acct THEN r
                       ELSE [r EXCEPT !.deleted = ~@] : r \in db.confectioner},
     !.category = {IF r.idAccount = acct THEN r
                   ELSE [r EXCEPT !.deleted = ~@] : r \in db.category},
     !.productFlavor = {r \in db.productFlavor : r.idAccount = acct},
     !.productSize = {r \in db.productSize : r.idAccount = acct},
     !.cart = {r \in db.cart : r.idAccount = acct},
     !.cartItem = {r \in db.cartItem : r.idAccount = acct}]

\* the rows of a table that a step wrote (created, or modified: a modified
\* row counts with its old and its new content)
Written(before, after) == (after \ before) \cup (before \ after)

\* a spCartItemAdd step touches only carts of the caller and items in them,
\* and ends as it would with the other accounts' data changed
CartCallIsolated ==
  call'.proc = "spCartItemAdd" =>
    LET a == call'.args
        other == spCartItemAdd(OtherAccountsChanged(DB, a.idAccount), a, now')
    IN /\ \A c \in Written(cart, cart') :
            c.idAccount = a.idAccount /\ c.idUser = a.idUser
       /\ \A r \in Written(cartItem, cartItem') :
            /\ r.idAccount = a.idAccount
            /\ \E c \in cart' : c.idCart = r.idCart /\ c.idAccount = a.idAccount
                                  /\ c.idUser = a.idUser
       /\ call'.error = other.error
       /\ call'.recordset = other.recordset
       /\ {r \in cartItem' : r.idAccount = a.idAccount} = other.db.cartItem
       /\ {c \in cart' : c.idAccount = a.idAccount} = other.db.cart

\* the queries: their rows are products of the account asked for, and they
\* answer the same with the other accounts' data changed
QueryIsolated ==
  /\ call.proc \in {"spProductList", "spProductGet", "spProductRelated"} =>
       \A row \in Rows(call.recordset) :
         \E prd \in product :
           prd.idProduct = row.idProduct /\ prd.idAccount = call.args.idAccount
  /\ call.proc = "spProductRelated" =>
       LET other == spProductRelated(OtherAccountsChanged(DB, call.args.idAccount), call.args)
       IN call.error = other.error /\ call.recordset = other.recordset
  /\ call.proc = "spProductGet" =>
       LET other == spProductGet(OtherAccountsChanged(DB, call.args.idAccount), call.args)
       IN call.error = other.error /\ call.recordset = other.recordset
  /\ call.proc = "spProductList" =>
       LET other == spProductList(OtherAccountsChanged(DB, call.args.idAccount), call.args)
       IN call.error = other.error /\ call.recordset = other.recordset

\* C9: every row spProductList, spProductGet and spProductRelated return
\* belongs to the idAccount passed in; spCartItemAdd reads, creates and
\* modifies only carts of the idAccount and idUser passed in and the items
\* in them; the data of another account never affects a result.
C9_AccountIsolation == [][CartCallIsolated /\ QueryIsolated']_vars

----------------------------------------------------------------------------
(* Claims about spProductRelated, spProductList and spProductGet *)

\* the last call was spProductRelated and it returned its result set
RelatedReturned == call.proc = "spProductRelated" /\ call.error = NoError

\* the product with the given id (idProduct is the primary key)
ProductOf(id) == CHOOSE prd \in product : prd.idProduct = id

\* the products spProductRelated may return for arguments a: those of the
\* account, other than the reference product, not deleted, active and
\* available, made by a confectioner of the account who is not deleted
Eligible(a) ==
  {prd \in product :
     /\ prd.idAccount = a.idAccount
     /\ prd.idProduct # a.idProduct
     /\ ~prd.deleted /\ prd.active /\ prd.available
     /\ \E cnf \in confectioner :
          /\ cnf.idConfectioner = prd.idConfectioner
          /\ cnf.idAccount = prd.idAccount
          /\ ~cnf.deleted}

\* the product matches the criterion of a against the reference product
Matches(a, prd) ==
  LET ref == ProductOf(a.idProduct) IN
  CASE a.criteria = "categoria" -> prd.idCategory = ref.idCategory
    [] a.criteria = "confeiteiro" -> prd.idConfectioner = ref.idConfectioner
    [] a.criteria = "sabor" ->
         \E f1, f2 \in productFlavor :
           /\ f1.idProduct = ref.idProduct
           /\ f2.idProduct = prd.idProduct
           /\ f1.idFlavor = f2.idFlavor
    [] OTHER -> FALSE

\* the ranking key of a product, smaller first: match descending,
\* popularity descending, rating descending, idProduct ascending
RankKey(a, prd) ==
  << IF Matches(a, prd) THEN 0 ELSE 1, 0 - prd.totalReviews,
     0 - prd.averageRating, prd.idProduct >>

\* k1 comes before k2, key by key
KeyBefore(k1, k2) ==
  \E i \in 1..Len(k1) : k1[i] < k2[i] /\ \A j \in 1..(i - 1) : k1[j] = k2[j]

\* the products of the rows returned, in the order returned
Returned == [i \in 1..Len(call.recordset) |-> ProductOf(call.recordset[i].idProduct)]

\* C6: spProductRelated returns exactly the first `limit` eligible products
\* in the order match descending, popularity descending, rating descending,
\* idProduct ascending; products that tie on the first three come in
\* ascending idProduct order.
C6_RelatedRanking ==
  RelatedReturned =>
    LET a == call.args
        n == Len(call.recordset)
    IN /\ n = Min(a.limit, Cardinality(Eligible(a)))
       /\ \A i \in 1..n : Returned[i] \in Eligible(a)
       /\ \A i, j \in 1..n :
            i < j => KeyBefore(RankKey(a, Returned[i]), RankKey(a, Returned[j]))
       /\ \A prd \in Eligible(a) :
            (\A i \in 1..n : Returned[i] # prd) =>
              \A i \in 1..n : KeyBefore(RankKey(a, Returned[i]), RankKey(a, prd))

\* two products that tie on match, popularity and rating were returned
C6_Witness ==
  /\ RelatedReturned
  /\ \E i, j \in 1..Len(call.recordset) :
       /\ i < j
       /\ Matches(call.args, Returned[i]) = Matches(call.args, Returned[j])
       /\ Returned[i].totalReviews = Returned[j].totalReviews
       /\ Returned[i].averageRating = Returned[j].averageRating

\* C7: with fewer than `limit` eligible products matching the criterion,
\* spProductRelated still returns min(limit, eligible products) rows, the
\* places after the matching ones filled with non-matching eligible
\* products in descending popularity; no non-matching product is returned
\* while a matching eligible one is left out; with 'popularidade' the rows
\* come in descending popularity.
C7_RelatedFallback ==
  RelatedReturned =>
    LET a == call.args
        n == Len(call.recordset)
        matching == {prd \in Eligible(a) : Matches(a, prd)}
        m == Cardinality(matching)
    IN /\ m < a.limit =>
            /\ n = Min(a.limit, Cardinality(Eligible(a)))
            /\ \A i \in 1..n : (i <= m) <=> (Returned[i] \in matching)
            /\ \A i, j \in (m + 1)..n :
                 i < j => Returned[i].totalReviews >= Returned[j].totalReviews
       /\ (\E i \in 1..n : Returned[i] \notin matching) =>
            \A prd \in matching : \E i \in 1..n : Returned[i] = prd
       /\ a.criteria = "popularidade" =>
            \A i, j \in 1..n :
              i < j => Returned[i].totalReviews >= Returned[j].totalReviews

\* a matching product was returned first and a more popular product that
\* does not match filled the place after it
C7_Witness ==
  /\ RelatedReturned
  /\ Len(call.recordset) = 2
  /\ call.args.limit > 1
  /\ Matches(call.args, Returned[1])
  /\ ~Matches(call.args, Returned[2])
  /\ Returned[2].totalReviews > Returned[1].totalReviews

\* C8: no row spProductRelated returns is the reference product, and every
\* row is a product of the caller's account that is not deleted, is active
\* and is available.
C8_RelatedRowsAllowed ==
  call.proc = "spProductRelated" =>
    \A row \in Rows(call.recordset) :
      /\ row.idProduct # call.args.idProduct
      /\ \E prd \in product :
           /\ prd.idProduct = row.idProduct
           /\ prd.idAccount = call.args.idAccount
           /\ prd.deleted = FALSE
           /\ prd.active = TRUE
           /\ prd.available = TRUE

\* a product was returned, with room left for more, next to the reference
\* product, which is itself on sale, and a third product that is not
C8_Witness ==
  /\ RelatedReturned
  /\ Len(call.recordset) >= 1
  /\ Len(call.recordset) < call.args.limit
  /\ ProductOf(call.args.idProduct).available
  /\ ProductOf(call.args.idProduct).active
  /\ \E prd \in product :
       /\ prd.idProduct # call.args.idProduct
       /\ \A row \in Rows(call.recordset) : row.idProduct # prd.idProduct

\* C10: in every row spProductList, spProductGet and spProductRelated
\* return, currentPrice is promotionalPrice when that is not NULL and
\* basePrice otherwise; in the rows of list and get, hasPromotion is 1
\* exactly when promotionalPrice is not NULL.
C10_CurrentPrice ==
  call.proc \in {"spProductList", "spProductGet", "spProductRelated"} =>
    \A row \in Rows(call.recordset) :
      LET prd == ProductOf(row.idProduct) IN
      /\ row.basePrice = prd.basePrice
      /\ row.promotionalPrice = prd.promotionalPrice
      /\ prd.promotionalPrice # NULL => row.currentPrice = prd.promotionalPrice
      /\ prd.promotionalPrice = NULL => row.currentPrice = prd.basePrice
      /\ call.proc \in {"spProductList", "spProductGet"} =>
           /\ row.hasPromotion \in {0, 1}
           /\ (row.hasPromotion = 1) <=> (prd.promotionalPrice # NULL)

\* spProductList returned a product on promotion and one that is not
C10_Witness ==
  /\ call.proc = "spProductList"
  /\ \E r1, r2 \in Rows(call.recordset) :
       /\ r1.promotionalPrice # NULL /\ r1.currentPrice < r1.basePrice
       /\ r2.promotionalPrice = NULL /\ r2.currentPrice = r2.basePrice

----------------------------------------------------------------------------
(* Failed calls of spCartItemAdd *)

\* the step is a call of spCartItemAdd that ended in an error
AddFailedStep == call'.proc = "spCartItemAdd" /\ call'.error # NoError /\ now' # now

C11_FailedStep == AddFailedStep => (cart' = cart /\ cartItem' = cartItem)

\* C11: every spCartItemAdd call that ends in an error, thrown by a
\* validation or inside the transaction, leaves the cart and cartItem tables
\* exactly as they were before the call.
C11_FailedCallLeavesTables == [][C11_FailedStep]_vars

\* a call failed inside the transaction, after the validations had passed,
\* over a cart that holds an item
C11_Witness ==
  /\ call.proc = "spCartItemAdd"
  /\ call.error # NoError
  /\ ValidArguments(call.args)
  /\ cart # {}
  /\ cartItem # {}

----------------------------------------------------------------------------
(* The handlers *)

\* the last request went to GET /product and its handler executed spProductList
ListExecuted == request.route = "GET /product" /\ call.proc = "spProductList"

\* C12: for GET /product, the values the client supplies in the query
\* string are the values passed to spProductList, the defaults being used
\* only for the parameters the client omitted.
C12_QueryValuesPassed ==
  LET supplied == ListQuerySchema(request.query) IN
  (ListExecuted /\ supplied.ok) =>
    call.args = ProductListInputs(supplied.value @@ Credential)

\* the parameters of the last request, in its path, query or body, pass the
\* schemas of its route
SchemasPass ==
  CASE request.route = "GET /product" -> ListQuerySchema(request.query).ok
    [] request.route = "GET /product/:id" -> ParamsSchema(request.params).ok
    [] request.route = "GET /product/:id/related" ->
         ParamsSchema(request.params).ok /\ RelatedQuerySchema(request.query).ok
    [] request.route = "POST /cart/item" -> BodySchema(request.body).ok
    [] OTHER -> TRUE

\* C13: a request whose path, query or body parameters fail schema
\* validation is answered with a client error of code VALIDATION_ERROR, not
\* with the server error, and no stored procedure is executed.
C13_ValidationErrorResponse ==
  (request # NoRequest /\ ~ SchemasPass) =>
    /\ response.status \in 400..499
    /\ response.code = "VALIDATION_ERROR"
    /\ call = NoCall

\* the handler of the last request called its service function
ServiceCalled ==
  CASE request.route = "GET /product" -> ListQuerySchema(read(request)).ok
    [] request.route = "GET /product/:id" -> ParamsSchema(read(request)).ok
    [] request.route = "GET /product/:id/related" ->
         ParamsSchema(read(request)).ok /\ RelatedQuerySchema(request.query).ok
    [] request.route = "POST /cart/item" -> BodySchema(create(request)).ok
    [] OTHER -> FALSE

\* the service function threw an error other than a procedure's error 51000
OtherErrorThrown ==
  /\ ServiceCalled
  /\ \/ request.fault
     \/ call.error # NoError /\ call.error.number # 51000

----------------------------------------------------------------------------
(* The row spCartItemAdd returns *)

\* C15: the row returned by a successful spCartItemAdd reports the cart
\* item as stored after the call: its quantity and totalPrice are those of
\* the cartItem row with the returned idCartItem, after an insert and after
\* a merge alike.
C15_ReturnedRowIsStored ==
  AddSucceeded =>
    \E r \in cartItem :
      /\ r.idCartItem = call.recordset[1].idCartItem
      /\ r.quantity = call.recordset[1].quantity
      /\ r.totalPrice = call.recordset[1].totalPrice

----------------------------------------------------------------------------
(* The product list *)

\* the last call was spProductList with arguments that pass its validations
ListCalledValid == call.proc = "spProductList" /\ ProductListValidation(call.args) = ""

\* the ceiling of n / d
Ceiling(n, d) == (n + d - 1) \div d

\* C16: for a valid spProductList call the product result set is the slice
\* of the filtered, sorted products from offset (page - 1) * pageSize with
\* at most pageSize rows, and the pagination row reports totalItems = the
\* number of products passing the filters, totalPages = the ceiling of
\* totalItems / pageSize, currentPage = page and pageSize = pageSize.
C16_PageAndPagination ==
  ListCalledValid =>
    LET a == call.args
        out == spProductList(DB, a)
        total == Cardinality(FilteredProducts(DB, a))
        offset == (a.page - 1) * a.pageSize
        rest == IF total > offset THEN total - offset ELSE 0
    IN /\ out.error = NoError
       /\ Len(out.recordset) = Min(a.pageSize, rest)
       /\ out.pagination = <<[totalItems |-> total,
                              totalPages |-> Ceiling(total, a.pageSize),
                              currentPage |-> a.page, pageSize |-> a.pageSize]>>

----------------------------------------------------------------------------
(* Validation errors of the procedures *)

\* the products idProduct names that belong to the caller's account and are
\* neither deleted nor inactive
Obtainable(a) ==
  {prd \in product : /\ prd.idProduct = a.idProduct
                     /\ prd.idAccount = a.idAccount
                     /\ ~ prd.deleted
                     /\ prd.active}

\* C17: spProductGet fails with error 51000 'productDoesntExist', returning
\* no result set, whenever idProduct names no product, a product of another
\* account, a deleted product or an inactive product; otherwise it succeeds.
C17_ProductDoesntExist ==
  call.proc = "spProductGet" =>
    IF Obtainable(call.args) = {}
    THEN /\ call.error.number = 51000
         /\ call.error.message = "productDoesntExist"
         /\ call.recordset = <<>>
    ELSE call.error = NoError

\* the call named an inactive product of the caller's own account
C17_Witness ==
  /\ call.proc = "spProductGet"
  /\ call.error.message = "productDoesntExist"
  /\ \E prd \in product : /\ prd.idProduct = call.args.idProduct
                          /\ prd.idAccount = call.args.idAccount
                          /\ ~ prd.deleted
                          /\ ~ prd.active

\* the product, the flavor link and the size link the call's arguments name
ProductOrderable(a) ==
  \E prd \in product : /\ prd.idProduct = a.idProduct
                       /\ prd.idAccount = a.idAccount
                       /\ ~ prd.deleted /\ prd.active /\ prd.available

FlavorLinked(a) ==
  \E l \in productFlavor : /\ l.idAccount = a.idAccount
                           /\ l.idProduct = a.idProduct
                           /\ l.idFlavor = a.idFlavor

SizeLinked(a) ==
  \E l \in productSize : /\ l.idAccount = a.idAccount
                         /\ l.idProduct = a.idProduct
                         /\ l.idSize = a.idSize

\* the failures of the arguments, in the order of the claim
Failures(a) ==
  (IF a.quantity = NULL \/ a.quantity < 1 THEN <<"quantityRequired">> ELSE <<>>)
  \o (IF a.quantity > 10 THEN <<"quantityExceedsMaximum">> ELSE <<>>)
  \o (IF ~ ProductOrderable(a) THEN <<"productNotAvailable">> ELSE <<>>)
  \o (IF ~ FlavorLinked(a) THEN <<"flavorNotAvailable">> ELSE <<>>)
  \o (IF ~ SizeLinked(a) THEN <<"sizeNotAvailable">> ELSE <<>>)

C18_Step ==
  (call'.proc = "spCartItemAdd" /\ now' # now) =>
    LET failures == Failures(call'.args) IN
    failures # <<>> =>
      /\ call'.error.number = 51000
      /\ call'.error.message = failures[1]

\* C18: spCartItemAdd validates in a fixed order and reports the first
\* failure only: quantity null or < 1 'quantityRequired', quantity > 10
\* 'quantityExceedsMaximum', a product missing, of another account, deleted,
\* inactive or unavailable 'productNotAvailable', a flavor not linked
\* 'flavorNotAvailable', a size not linked 'sizeNotAvailable'.
C18_FirstFailureReported == [][C18_Step]_vars

\* an unavailable product was asked for with a flavor not linked to it
C18_Witness ==
  /\ call.proc = "spCartItemAdd"
  /\ call.error.message = "productNotAvailable"
  /\ Len(Failures(call.args)) >= 2
  /\ \E prd \in product : /\ prd.idProduct = call.args.idProduct
                          /\ prd.idAccount = call.args.idAccount
                          /\ ~ prd.available
  /\ ~ FlavorLinked(call.args)

\* the messages of the rules the arguments of spProductList break
ListFailures(a) ==
  (IF a.page < 1 THEN {"pageMinimumValue"} ELSE {})
  \cup (IF a.pageSize \notin {12, 24, 36} THEN {"pageSizeInvalidValue"} ELSE {})
  \cup (IF a.sortBy \notin {"relevancia", "preco_menor", "preco_maior",
                            "mais_vendidos", "melhor_avaliados", "mais_recentes"}
        THEN {"sortByInvalidValue"} ELSE {})
  \cup (IF a.availability \notin {"disponivel", "indisponivel", "todos"}
        THEN {"availabilityInvalidValue"} ELSE {})
  \cup (IF a.minPrice # NULL /\ a.maxPrice # NULL /\ a.minPrice > a.maxPrice
        THEN {"priceRangeInvalid"} ELSE {})

\* C19: spProductList rejects, with error 51000 and no result set, page < 1
\* ('pageMinimumValue'), a pageSize outside {12, 24, 36}
\* ('pageSizeInvalidValue'), a sortBy outside its six values
\* ('sortByInvalidValue'), an availability outside its three values
\* ('availabilityInvalidValue') and minPrice > maxPrice when both are given
\* ('priceRangeInvalid'); minPrice = maxPrice is accepted: no validation
\* refuses it and the products at that price are listed.
C19_ListValidation ==
  call.proc = "spProductList" =>
    LET a == call.args IN
    IF ListFailures(a) # {}
    THEN /\ call.error.number = 51000
         /\ call.error.message \in ListFailures(a)
         /\ call.recordset = <<>>
    ELSE /\ call.error.number # 51000
         /\ a.page = 1 =>
              \A prd \in FilteredProducts(DB, a) :
                \E i \in 1..Len(call.recordset) :
                  call.recordset[i].idProduct = prd.idProduct

\* a call with minPrice = maxPrice listed a product at that price
C19_Witness ==
  /\ call.proc = "spProductList"
  /\ call.args.minPrice # NULL
  /\ call.args.minPrice = call.args.maxPrice
  /\ \E i \in 1..Len(call.recordset) :
       call.recordset[i].currentPrice = call.args.minPrice

----------------------------------------------------------------------------
(* The order of the product list *)

\* The product table counts no units sold.  The one count of a product's
\* custom that it holds is totalReviews, the popularity spProductRelated
\* ranks by; it stands for the units sold here.
UnitsSold(prd) == prd.totalReviews

\* x comes before y in the order sortBy names, ties broken by idProduct
\* ascending
SortedBefore(sortBy, x, y) ==
  LET key(r) == CASE sortBy = "preco_menor" -> CurrentPrice(r)
                  [] sortBy = "preco_maior" -> 0 - CurrentPrice(r)
                  [] sortBy = "melhor_avaliados" -> 0 - r.averageRating
                  [] sortBy = "mais_recentes" -> 0 - r.dateCreated
                  [] sortBy = "mais_vendidos" -> 0 - UnitsSold(r)
                  [] OTHER -> 0
  IN key(x) < key(y) \/ (key(x) = key(y) /\ x.idProduct < y.idProduct)

\* the sortBy values the order is stated for
NamedOrders == {"preco_menor", "preco_maior", "melhor_avaliados", "mais_recentes",
                "mais_vendidos"}

\* C20: spProductList returns products in the order its sortBy names:
\* 'preco_menor' by current price ascending, 'preco_maior' by current price
\* descending, 'melhor_avaliados' by averageRating descending,
\* 'mais_recentes' by dateCreated descending, 'mais_vendidos' by units sold
\* descending, each with ties broken by idProduct ascending.
C20_SortOrder ==
  (ListCalledValid /\ call.args.sortBy \in NamedOrders) =>
    \A i, j \in 1..Len(call.recordset) :
      i < j => SortedBefore(call.args.sortBy,
                            ProductOf(call.recordset[i].idProduct),
                            ProductOf(call.recordset[j].idProduct))

----------------------------------------------------------------------------
(* Claims about interleaved spCartItemAdd calls *)

\* the cartItem rows that committed transactions have written
CommittedItems ==
  {r \in cartItem :
     \A s \in Sessions : <<"cartItem", r.idCartItem>> \notin session[s].inserted}

\* C21: in every reachable state, also when the statements of two or more
\* spCartItemAdd calls of the same user interleave, a cart holds at most one
\* cartItem row for each combination of product, flavor and size.
C21_OneRowPerSelection ==
  \A r1, r2 \in CommittedItems :
    (/\ r1.idCart = r2.idCart
     /\ r1.idProduct = r2.idProduct
     /\ r1.idFlavor = r2.idFlavor
     /\ r1.idSize = r2.idSize) => r1 = r2

\* the first call, made alone, put a row in the cart
FirstCallAdded == call.proc = "spCartItemAdd" /\ call.error = NoError

\* the connections whose call has begun
Begun == {s \in Sessions : session[s].pc # "idle"}

\* connection s has completed successfully a call for the user, product,
\* flavor and size of the first call
AddedToSameRow(s) ==
  /\ session[s].pc = "done"
  /\ session[s].error = NoError
  /\ session[s].args.idAccount = call.args.idAccount
  /\ session[s].args.idUser = call.args.idUser
  /\ session[s].args.idProduct = call.args.idProduct
  /\ session[s].args.idFlavor = call.args.idFlavor
  /\ session[s].args.idSize = call.args.idSize

\* the quantities the connections of S asked for, added up
RECURSIVE RequestedQuantity(_)
RequestedQuantity(S) ==
  IF S = {} THEN 0
  ELSE LET s == CHOOSE x \in S : TRUE
       IN session[s].args.quantity + RequestedQuantity(S \ {s})

\* C22: when two (or more) spCartItemAdd calls for the same user, product,
\* flavor and size have run against an existing row of quantity q and all
\* have completed successfully, the row's quantity is q plus the quantities
\* they asked for: no update is lost.
C22_NoLostUpdate ==
  (/\ FirstCallAdded
   /\ Cardinality(Begun) >= 2
   /\ \A s \in Begun : AddedToSameRow(s))
  => \A r \in SameSelection(cart, cartItem, call.args) :
       r.quantity = call.args.quantity + RequestedQuantity(Begun)

----------------------------------------------------------------------------
(* Claims about the credential *)

\* a procedure was executed for the last request
ProcedureExecuted == call.proc # ""

\* the last request carries an idAccount or an idUser of its own
RequestNamesCredential ==
  \E part \in {request.params, request.query, request.body} :
    part.idAccount # Undefined \/ part.idUser # Undefined

\* the procedures that take @idUser
TakesUser == {"spCartItemAdd"}

\* two requests, one after the other, each executed: the same @idAccount,
\* and the same @idUser where both procedures take one
C23_Step ==
  (ProcedureExecuted /\ ProcedureExecuted') =>
    /\ call'.args.idAccount = call.args.idAccount
    /\ (call.proc \in TakesUser /\ call'.proc \in TakesUser)
         => call'.args.idUser = call.args.idUser

\* C23: nothing a request carries (path parameters, query string, JSON body,
\* fields named idAccount or idUser among them) changes the idAccount and
\* idUser its handler passes to the stored procedure: any two requests are
\* executed under the same credential.
C23_SameCredential == [][C23_Step]_vars

\* a second request that names an account and a user of its own has been
\* executed
C23_Witness ==
  /\ now > 1
  /\ ProcedureExecuted
  /\ RequestNamesCredential
  /\ request.route = "POST /cart/item"
  /\ request.body.idAccount = Some(JNumber(2))
  /\ call.error = NoError

====
